---- MODULE Spec2Model ----
(***************************************************************************)
(* Model of the content-addressed object store of dvc_objects / dvc_data:  *)
(* ObjectDB, HashFileDB, LocalHashFileDB, hashfile status, gc and the      *)
(* hashfile transfer protocol with its per-object error handling.          *)
(*                                                                         *)
(* An oid is the sequence of the dot-separated parts of the oid string:    *)
(* "f1" is <<"f1">> and "t1.dir" is <<"t1", "dir">>.  The bytes of a file   *)
(* are represented by the digest they hash to.  The source ODB holds only  *)
(* well-formed objects and does not change; the destination ODB is the     *)
(* store under test.  The state cache is the default StateNoop and the     *)
(* status index is absent.                                                 *)
(***************************************************************************)
EXTENDS Integers, Sequences, FiniteSets, TLC

\* ---------------------------------------------------------------- bounds
MaxOps == 2        \* top-level calls per run
MaxJobs == 2       \* largest jobs / batch_size of a call
MaxAddLen == 2     \* longest oid list of a direct add

\* ------------------------------------------------------ program constants
CACHE_MODE == 292  \* 0o444
FILE_MODE == 420   \* 0o666 & ~umask with umask 0o022
S_IEXEC == 64      \* 0o100

\* ----------------------------------------------------------- the universe
f1 == <<"f1">>
f2 == <<"f2">>
f3 == <<"f3">>
t1 == <<"t1", "dir">>
t2 == <<"t2", "dir">>
FileOids == {f1, f2, f3}
TreeOids == {t1, t2}
Oids == FileOids \cup TreeOids

\* the file oids listed by the tree stored under a .dir oid; t1 and t2
\* share f2, f3 belongs to no tree
TreeEntries(t) == IF t = t1 THEN {f1, f2} ELSE IF t = t2 THEN {f2} ELSE {}

Junk == "junk"
Absent == [content |-> "none", mode |-> 0]
Contents == {o[1] : o \in Oids} \cup {Junk}

\* --------------------------------------------------------------- helpers
\* HashInfo.isdir: value.endswith(".dir")
isdir(oid) == Len(oid) > 1 /\ oid[Len(oid)] = "dir"

\* str.split(".")[0]
SplitHead(parts) == parts[1]

\* hash_file with StateNoop: the digest of the stored bytes, never suffixed
hash_file(obj) == <<obj.content>>

\* mode | stat.S_IEXEC
OrExec(mode) == IF (mode \div S_IEXEC) % 2 = 1 THEN mode ELSE mode + S_IEXEC

Present(st) == {o \in Oids : st[o] # Absent}

\* all orders in which a set can be iterated
SeqsOf(S) == {s \in [1..Cardinality(S) -> S] : \A i, j \in 1..Cardinality(S) : s[i] = s[j] => i = j}

Range(s) == {s[i] : i \in 1..Len(s)}

VARIABLES
    src,        \* oids stored in the source ODB
    store,      \* destination ODB: oid -> object file (content, mode) or Absent
    read_only,  \* ObjectDB.read_only of the destination
    isLocal,    \* destination is a LocalHashFileDB (else plain HashFileDB)
    chmodOK,    \* os.chmod works on the destination filesystem
    canReflink, \* the destination filesystem supports reflink from the source
    fsJobs,     \* dest.fs.jobs, the batch size of a transfer called with jobs=None
    pc,         \* "idle", "dirs" (in _do_transfer) or "add" (in ObjectDB.add)
    tr,         \* frame of the running transfer call
    ad,         \* frame of the running add call
    last,       \* outcome of the last finished top-level call
    attempts,   \* per oid: writes started during the current top-level call
    outcome,    \* per oid: how its last write of the current call ended
    ops,        \* number of top-level calls made
    calc        \* inputs and results of the pure functions under study

vars == <<src, store, read_only, isLocal, chmodOK, canReflink, fsJobs, pc, tr, ad, last, attempts, outcome, ops, calc>>
env == <<src, read_only, isLocal, chmodOK, canReflink, fsJobs, calc>>

NoTr == [active |-> FALSE]
NoCalc == [fn |-> "none"]
NoAd == [active |-> FALSE, st |-> <<>>]
NoAttempts == [o \in Oids |-> 0]
NoOutcome == [o \in Oids |-> "none"]
Result(op, arg, exc, n, transferred, failed) ==
    [op |-> op, arg |-> arg, exc |-> exc, n |-> n, transferred |-> transferred, failed |-> failed]

\* --------------------------------------------------- LocalHashFileDB bits
\* LocalHashFileDB.protect / HashFileDB.protect on one stored file
protect(st, oid) ==
    IF isLocal /\ chmodOK /\ st[oid] # Absent
    THEN [st EXCEPT ![oid].mode = CACHE_MODE]
    ELSE st

\* LocalHashFileDB.is_protected
is_protected(st, oid) == isLocal /\ st[oid] # Absent /\ st[oid].mode = CACHE_MODE

\* HashFileDB.check(oid, check_hash=True): "ok", "notfound" or "corrupt"
check_result(st, oid) ==
    IF st[oid] = Absent THEN "notfound"
    ELSE IF isLocal /\ st[oid].mode = CACHE_MODE THEN "ok"
    ELSE IF SplitHead(hash_file(st[oid])) # SplitHead(oid) THEN "corrupt"
    ELSE "ok"

\* faulty variant of check_store, for sensitivity runs: the corrupt file is left in place
check_store_keep(st, oid) ==
    IF check_result(st, oid) = "ok" /\ ~(isLocal /\ st[oid].mode = CACHE_MODE)
    THEN protect(st, oid)
    ELSE st

\* the store after HashFileDB.check(oid, check_hash=True)
check_store(st, oid) ==
    CASE check_result(st, oid) = "notfound" -> st
      [] check_result(st, oid) = "corrupt" -> [st EXCEPT ![oid] = Absent]
      [] OTHER -> IF isLocal /\ st[oid].mode = CACHE_MODE THEN st ELSE protect(st, oid)

\* check applied to every oid of a set (the checks are independent per oid)
check_all(st, S) == [o \in Oids |-> IF o \in S THEN check_store(st, o)[o] ELSE st[o]]

\* ObjectDB.oids_exist / LocalHashFileDB.oids_exist: the oids reported
oids_exist(st, S) ==
    IF isLocal THEN {o \in S : check_result(st, o) = "ok"}
    ELSE {o \in S : st[o] # Absent}

\* the store after oids_exist (only the local ODB checks, and so mutates)
oids_exist_store(st, S) == IF isLocal THEN check_all(st, S) ELSE st

\* ------------------------------------------------------------------ Init
\* the source ODB holds every object, or lacks the file f1
SrcChoices == {Oids, Oids \ {f1}}

\* kinds of destination: plain HashFileDB, LocalHashFileDB, LocalHashFileDB
\* on a filesystem that refuses chmod
DestKinds == {<<FALSE, FALSE>>, <<TRUE, TRUE>>, <<TRUE, FALSE>>}

\* destination filesystems: with reflink, or without and with 1..MaxJobs jobs
FsKinds == {<<TRUE, 1>>} \cup {<<FALSE, j>> : j \in 1..MaxJobs}

EmptyStore == [o \in Oids |-> Absent]

\* the destination starts empty, or holding under f2 a file that was
\* written with bytes that do not hash to f2
InitStores == {EmptyStore, [EmptyStore EXCEPT ![f2] = [content |-> Junk, mode |-> FILE_MODE]]}

\* the ODB starts empty, or holding the object f1
InitStoresODB == {EmptyStore, [EmptyStore EXCEPT ![f1] = [content |-> f1[1], mode |-> FILE_MODE]]}

InitCall ==
    /\ pc = "idle"
    /\ tr = NoTr
    /\ ad = NoAd
    /\ last = Result("none", {}, "none", 0, {}, {})
    /\ attempts = NoAttempts
    /\ outcome = NoOutcome
    /\ ops = 0

Init ==
    /\ src \in SrcChoices
    /\ read_only \in BOOLEAN
    /\ isLocal \in BOOLEAN
    /\ chmodOK = isLocal
    /\ \E k \in FsKinds : canReflink = k[1] /\ fsJobs = k[2]
    /\ store \in InitStores
    /\ calc = NoCalc
    /\ InitCall

\* a top-level call may start
CanCall == pc = "idle" /\ ops < MaxOps

\* a top-level call that finishes in the step that starts it
Atomic(op, arg, exc, n, st) ==
    /\ CanCall
    /\ ops' = ops + 1
    /\ store' = st
    /\ last' = Result(op, arg, exc, n, {}, {})
    /\ pc' = "idle"
    /\ tr' = NoTr
    /\ ad' = NoAd
    /\ attempts' = NoAttempts
    /\ outcome' = NoOutcome
    /\ UNCHANGED env

\* ----------------------------------------------- ObjectDB one-step calls
\* ObjectDB.add_bytes(oid, data)
add_bytes(oid, data) ==
    IF read_only
    THEN Atomic("add_bytes", {oid}, "ObjectDBPermissionError", 0, store)
    ELSE Atomic("add_bytes", {oid}, "none", 0, [store EXCEPT ![oid] = [content |-> data, mode |-> FILE_MODE]])

\* ObjectDB.delete(oid)
delete(oid) ==
    IF store[oid] = Absent /\ ~isLocal
    THEN Atomic("delete", {oid}, "FileNotFoundError", 0, store)
    ELSE Atomic("delete", {oid}, "none", 0, [store EXCEPT ![oid] = Absent])

\* ObjectDB.clear()
clear ==
    Atomic("clear", {}, "none", 0, [o \in Oids |-> Absent])

\* HashFileDB.hash_name of the ODB, and the sets of HashInfos handed to gc as
\* used: oids of the ODB under its hash name and under another one
odb_hash_name == "md5"
GcInfo(n, o) == [name |-> n, value |-> o]
GcUsedSets ==
    {{}, {GcInfo("md5", f1)}, {GcInfo("md5-dos2unix", f1)}, {GcInfo("md5", t1)},
     {GcInfo("md5", f1), GcInfo("md5-dos2unix", t1)}}

\* faulty variant of used_hashes, for sensitivity runs: the hash name of a used HashInfo is not
\* compared with the one of the ODB
used_hashes_anyname(used) == {hi.value : hi \in used}

\* gc lines 25-29: the values of the used HashInfos that carry the hash
\* name of the ODB
used_hashes(used) == {hi.value : hi \in {u \in used : u.name = odb_hash_name}}

\* gc lines 38-59 and the value returned: the oids listed by odb.all() that
\* are not used are counted, and removed unless dry
GcSweep(call, hashes) ==
    Atomic("gc", call, "none", Cardinality(Present(store) \ hashes),
           IF call.dry THEN store
           ELSE [o \in Oids |-> IF o \in hashes THEN store[o] ELSE Absent])

\* hashfile gc(odb, used, shallow, dry); Tree.load of a used .dir oid is
\* needed only when shallow is false
gc(used, shallow, dry) ==
    LET call == [used |-> used, shallow |-> shallow, dry |-> dry]
    IN  IF read_only
        THEN Atomic("gc", call, "ObjectDBPermissionError", 0, store)
        ELSE IF ~shallow /\ \E t \in used_hashes(used) : isdir(t) /\ store[t] = Absent
        THEN Atomic("gc", call, "FileNotFoundError", 0, store)
        ELSE IF ~shallow /\ \E t \in used_hashes(used) : isdir(t) /\ TreeEntries(t) # {}
        THEN Atomic("gc", call, "ValueError", 0, store)
        ELSE GcSweep(call, used_hashes(used))

\* HashFileDB.check(oid, check_hash=True) / LocalHashFileDB.check
check(oid) ==
    Atomic("check", {oid},
           CASE check_result(store, oid) = "notfound" -> "FileNotFoundError"
             [] check_result(store, oid) = "corrupt" -> "ObjectFormatError"
             [] OTHER -> "none",
           0, check_store(store, oid))

\* HashFileDB.protect(path) on the path of a stored oid
Protect(oid) ==
    Atomic("protect", {oid}, "none", 0, protect(store, oid))

\* LocalHashFileDB.unprotect(path) on the path of an oid (a plain file, not
\* a link); the base HashFileDB.unprotect does nothing
unprotect(oid) ==
    IF ~isLocal THEN Atomic("unprotect", {oid}, "none", 0, store)
    ELSE IF store[oid] = Absent THEN Atomic("unprotect", {oid}, "ObjectDBError", 0, store)
    ELSE IF ~chmodOK THEN Atomic("unprotect", {oid}, "OSError", 0, store)
    ELSE Atomic("unprotect", {oid}, "none", 0, [store EXCEPT ![oid].mode = FILE_MODE])

\* LocalHashFileDB.set_exec(path) on the path of a stored oid
set_exec(oid) ==
    IF ~isLocal THEN Atomic("set_exec", {oid}, "none", 0, store)
    ELSE IF store[oid] = Absent THEN Atomic("set_exec", {oid}, "FileNotFoundError", 0, store)
    ELSE IF ~chmodOK THEN Atomic("set_exec", {oid}, "none", 0, store)
    ELSE Atomic("set_exec", {oid}, "none", 0, [store EXCEPT ![oid].mode = OrExec(@)])

\* the bytes of a stored object change behind the ODB's back
ExternalChange(oid) ==
    /\ store[oid] # Absent
    /\ store[oid].content # Junk
    /\ Atomic("external", {oid}, "none", 0, [store EXCEPT ![oid].content = Junk])

\* ------------------------------------------------- transfer._log_exception
\* faulty variant of _log_exception, for sensitivity runs: every error is re-raised
_log_exception_all(exc) == TRUE

\* TRUE when the error is re-raised instead of being logged
_log_exception(exc) == exc = "EMFILE"

\* ---------------------------------------------------------- HashFileDB.add
\* faulty variant of AddTail, for sensitivity runs: the named oids are checked but never protected
AddTail_unprotected(st, named, verify) ==
    [o \in Oids |->
        IF o \in named /\ verify /\ check_result(st, o) = "corrupt" THEN Absent ELSE st[o]]

\* the part of HashFileDB.add after ObjectDB.add returned: check (when
\* verifying) and protect every named oid
AddTail(st, named, verify) ==
    [o \in Oids |->
        IF o \notin named THEN st[o]
        ELSE IF verify /\ check_result(st, o) # "ok" THEN check_store(st, o)[o]
        ELSE IF verify THEN protect(check_store(st, o), o)[o]
        ELSE protect(st, o)[o]]

\* faulty variant of to_add, for sensitivity runs: check_exists is ignored
to_add_all(st, given, check_exists) == [i \in 1..Len(given) |-> i]

\* ObjectDB.add: the (path, oid) pairs to copy, as positions of the oid list
to_add(st, given, check_exists) ==
    SelectSeq([i \in 1..Len(given) |-> i],
              LAMBDA i : ~check_exists \/ st[given[i]] = Absent)

\* a call finished by an exception
Raise(op, arg, exc, st) ==
    /\ store' = st
    /\ pc' = "idle"
    /\ last' = Result(op, arg, exc, 0, {}, {})
    /\ ad' = IF ad.active THEN [ad EXCEPT !.active = FALSE] ELSE NoAd
    /\ tr' = IF tr.active THEN [tr EXCEPT !.active = FALSE] ELSE NoTr

\* _do_transfer after its last _add: the result of transfer()
TransferReturn(T, st) ==
    /\ store' = st
    /\ pc' = "idle"
    /\ tr' = [T EXCEPT !.active = FALSE]
    /\ ad' = NoAd
    /\ last' = Result("transfer", T.obj_ids, "none", 0, T.new \ T.failed_ids, T.failed_ids)

\* entering HashFileDB.add(paths, fs, oids, ...) from caller `who`; content[i]
\* is the digest of the bytes at paths[i], "none" when that file is missing
AddEnter(who, T, given, content, check_exists, verify, on_error, jobs, st0) ==
    LET st1 == IF verify THEN check_all(st0, Range(given)) ELSE st0
        idx == to_add(st1, given, check_exists)
        F == [active |-> idx # <<>>, who |-> who, given |-> given,
              oids |-> [i \in 1..Len(idx) |-> given[idx[i]]],
              content |-> [i \in 1..Len(idx) |-> content[idx[i]]],
              st |-> [i \in 1..Len(idx) |-> "queued"],
              check_exists |-> check_exists, verify |-> verify,
              on_error |-> on_error, jobs |-> jobs,
              failed |-> 0, failedSet |-> {}, exc |-> "none",
              shutdown |-> FALSE, pre |-> st1]
    IN  IF read_only
        THEN /\ store' = st1
             /\ pc' = "idle"
             /\ last' = Result(IF who = "direct" THEN "add" ELSE "transfer",
                               IF who = "direct" THEN Range(given) ELSE T.obj_ids,
                               "ObjectDBPermissionError", 0, {}, {})
             /\ ad' = NoAd
             /\ tr' = IF who = "direct" THEN NoTr ELSE [T EXCEPT !.active = FALSE]
        ELSE IF idx = <<>>
        THEN /\ who = "direct"
             /\ store' = AddTail(st1, Range(given), verify)
             /\ pc' = "idle"
             /\ last' = Result("add", Range(given), "none", 0, {}, {})
             /\ ad' = F
             /\ tr' = T
        ELSE /\ store' = st1
             /\ pc' = "add"
             /\ tr' = T
             /\ last' = last
             /\ ad' = F

\* ------------------------------------------------------------ _do_transfer
\* lines 94-118 for directory `d` once _add of its bound files returned
\* `fails`; entering the _add of the .dir object when it is due
AfterDirFiles(T, d, fails, st) ==
    IF fails # {}
    THEN /\ tr' = [T EXCEPT !.failed_ids = @ \cup fails \cup {d}]
         /\ store' = st /\ pc' = "dirs" /\ ad' = NoAd /\ last' = last
    ELSE IF TreeEntries(d) \cap T.missing # {}
    THEN /\ tr' = T
         /\ store' = st /\ pc' = "dirs" /\ ad' = NoAd /\ last' = last
    ELSE AddEnter("dir_obj", T, <<d>>, <<d[1]>>, FALSE, T.verify, TRUE, T.jobs, st)

\* lines 115-118 once _add of the .dir object returned `fails`
AfterDirObj(T, d, fails, st) ==
    /\ tr' = IF fails # {} THEN [T EXCEPT !.failed_ids = @ \cup {d}] ELSE T
    /\ store' = st /\ pc' = "dirs" /\ ad' = NoAd /\ last' = last

\* lines 121-140 once _add of the remaining files returned `fails`
AfterRest(T, fails, st) ==
    TransferReturn([T EXCEPT !.failed_ids = @ \cup fails], st)

\* ------------------------------------------------ generic.transfer / pool
Running(a) == {i \in 1..Len(a.st) : a.st[i] = "running"}
Queued(a) == {i \in 1..Len(a.st) : a.st[i] = "queued"}
Raised(a) == {i \in 1..Len(a.st) : a.st[i] = "raised"}

\* generic.transfer runs the copies one after the other in the calling
\* thread while links are tried (reflink works, or the first file, on which
\* the link types are probed), when one copy is left, and when the
\* executor has one worker; else ThreadPoolExecutor(max_workers=jobs) runs them
Sequential(a) ==
    \/ canReflink
    \/ a.jobs = 1
    \/ Len(a.st) <= 2
    \/ a.st[1] \in {"queued", "running"}

\* faulty variant of CancelOnExit, for sensitivity runs: cancel_on_error is off, queued copies still run
CancelOnExit_never(st) == st

\* ThreadPoolExecutor.__exit__: shutdown(wait=True, cancel_futures=...)
CancelOnExit(st) == [i \in 1..Len(st) |-> IF st[i] = "queued" THEN "cancelled" ELSE st[i]]

\* a copy starts: the next (path, oid) pair in list order
TaskStart ==
    /\ pc = "add"
    /\ Queued(ad) # {}
    /\ Cardinality(Running(ad)) < (IF Sequential(ad) THEN 1 ELSE ad.jobs)
    /\ LET i == CHOOSE k \in Queued(ad) : \A j \in Queued(ad) : k <= j
       IN  /\ ad' = [ad EXCEPT !.st[i] = "running"]
           /\ attempts' = [attempts EXCEPT ![ad.oids[i]] = @ + 1]
           /\ outcome' = [outcome EXCEPT ![ad.oids[i]] = "running"]
    /\ UNCHANGED <<env, store, pc, tr, last, ops>>

CallName == IF ad.who = "direct" THEN "add" ELSE "transfer"
CallArg == IF ad.who = "direct" THEN Range(ad.given) ELSE tr.obj_ids

\* a copy ends well: the object file is in place with the default mode
TaskOk(i) ==
    /\ pc = "add"
    /\ ad.st[i] = "running"
    /\ ad.content[i] # "none"
    /\ store' = [store EXCEPT ![ad.oids[i]] = [content |-> ad.content[i], mode |-> FILE_MODE]]
    /\ ad' = [ad EXCEPT !.st[i] = "ok"]
    /\ outcome' = [outcome EXCEPT ![ad.oids[i]] = "ok"]
    /\ UNCHANGED <<env, pc, tr, last, attempts, ops>>

\* a copy fails with exception exc; ObjectDB.add._on_error counts it and
\* transfer._add._error logs it or re-raises it
TaskFail(i, exc) ==
    /\ pc = "add"
    /\ ad.st[i] = "running"
    /\ outcome' = [outcome EXCEPT ![ad.oids[i]] = exc]
    /\ IF ad.on_error /\ ~_log_exception(exc)
       THEN /\ ad' = [ad EXCEPT !.st[i] = "failed", !.failed = @ + 1,
                                !.failedSet = @ \cup {ad.oids[i]}]
            /\ UNCHANGED <<store, pc, tr, last>>
       ELSE IF Sequential(ad)
       THEN Raise(CallName, CallArg, exc, store)
       ELSE /\ ad' = [ad EXCEPT !.st[i] = "raised",
                                !.exc = IF ad.exc = "none" THEN exc ELSE ad.exc]
            /\ UNCHANGED <<store, pc, tr, last>>
    /\ UNCHANGED <<env, attempts, ops>>

\* the thread that called the executor sees the exception of a worker and
\* leaves the `with executor` block
PoolExit ==
    /\ pc = "add"
    /\ Raised(ad) # {}
    /\ ~ad.shutdown
    /\ ad' = [ad EXCEPT !.shutdown = TRUE, !.st = CancelOnExit(ad.st)]
    /\ UNCHANGED <<env, store, pc, tr, last, attempts, outcome, ops>>

\* shutdown(wait=True) is over: the exception leaves the call
PoolRaise ==
    /\ pc = "add"
    /\ ad.shutdown
    /\ Running(ad) = {} /\ Queued(ad) = {}
    /\ Raise(CallName, CallArg, ad.exc, store)
    /\ UNCHANGED <<env, attempts, outcome, ops>>

\* every copy was made or failed: HashFileDB.add protects and returns, and
\* the caller goes on
AddReturn ==
    /\ pc = "add"
    /\ \A i \in 1..Len(ad.st) : ad.st[i] \in {"ok", "failed"}
    /\ LET st1 == AddTail(store, Range(ad.given), ad.verify)
       IN  CASE ad.who = "direct" ->
                  /\ store' = st1 /\ pc' = "idle" /\ tr' = tr
                  /\ ad' = [ad EXCEPT !.active = FALSE]
                  /\ last' = Result("add", Range(ad.given), "none",
                                    Len(ad.oids) - ad.failed, {}, ad.failedSet)
             [] ad.who = "dir_files" -> AfterDirFiles(tr, tr.cur, ad.failedSet, st1)
             [] ad.who = "dir_obj" -> AfterDirObj(tr, tr.cur, ad.failedSet, st1)
             [] OTHER -> AfterRest(tr, ad.failedSet, st1)
    /\ UNCHANGED <<env, attempts, outcome, ops>>

\* ------------------------------------------------------------ ObjectDB.add
\* HashFileDB.add(paths, fs, oids, check_exists, verify, on_error) called
\* directly; `good` says whether the source files hold the bytes of the oids
add(given, good, check_exists, verify, on_error, jobs) ==
    /\ CanCall
    /\ ops' = ops + 1
    /\ attempts' = NoAttempts
    /\ outcome' = NoOutcome
    /\ AddEnter("direct", NoTr, given,
                [i \in 1..Len(given) |-> IF good THEN given[i][1] ELSE Junk],
                check_exists, verify, on_error, jobs, store)
    /\ UNCHANGED env

\* ---------------------------------------------------------------- status
\* status(): the oids whose existence is queried
status_hashes(obj_ids, shallow) ==
    obj_ids \cup (IF shallow THEN {} ELSE UNION {TreeEntries(t) : t \in {o \in obj_ids : isdir(o)}})

\* faulty variant of status_new, for sensitivity runs: whatever src holds is new, also when dest has it
status_new_all(st, obj_ids, shallow) == status_hashes(obj_ids, shallow) \cap src

\* compare_status(src, dest, obj_ids, check_deleted=False).new and .missing
status_new(st, obj_ids, shallow) ==
    LET hashes == status_hashes(obj_ids, shallow)
        dest_exists == oids_exist(st, hashes)
        dest_missing == hashes \ dest_exists
        src_exists == IF dest_missing # {} THEN hashes \cap src ELSE dest_exists
    IN  src_exists \ dest_exists
status_missing(st, obj_ids, shallow) ==
    LET hashes == status_hashes(obj_ids, shallow)
        dest_exists == oids_exist(st, hashes)
        dest_missing == hashes \ dest_exists
        src_missing == IF dest_missing # {} THEN hashes \ src ELSE {}
    IN  src_missing \cap dest_missing

\* ---------------------------------------------------------------- transfer
\* transfer(src, dest, obj_ids, jobs, verify, shallow); `same` is src == dest
transfer(obj_ids, jobs, verify, shallow, same) ==
    /\ CanCall
    /\ ops' = ops + 1
    /\ attempts' = NoAttempts
    /\ outcome' = NoOutcome
    /\ UNCHANGED env
    /\ LET new == IF same THEN {} ELSE status_new(store, obj_ids, shallow)
           T == [active |-> TRUE, obj_ids |-> obj_ids, new |-> new,
                 missing |-> IF same THEN {} ELSE status_missing(store, obj_ids, shallow),
                 dir_ids |-> {o \in new : isdir(o)},
                 file_ids |-> {o \in new : ~isdir(o)},
                 failed_ids |-> {}, cur |-> <<>>, verify |-> verify, jobs |-> jobs,
                 shallow |-> shallow, same |-> same, pre |-> store,
                 again |-> /\ "new" \in DOMAIN tr
                           /\ last.op = "transfer" /\ last.exc = "none" /\ last.failed = {}
                           /\ tr.obj_ids = obj_ids /\ tr.shallow = shallow
                           /\ tr.same = same]
       IN  IF same
           THEN /\ last' = Result("transfer", obj_ids, "none", 0, {}, {})
                /\ UNCHANGED <<store, pc>> /\ ad' = NoAd
                /\ tr' = [T EXCEPT !.active = FALSE]
           ELSE IF ~shallow /\ \E t \in obj_ids : isdir(t) /\ t \notin src
           THEN /\ last' = Result("transfer", obj_ids, "FileNotFoundError", 0, {}, {})
                /\ UNCHANGED <<store, pc>> /\ ad' = NoAd
                /\ tr' = [T EXCEPT !.active = FALSE, !.new = {}, !.missing = {},
                                   !.dir_ids = {}, !.file_ids = {}]
           ELSE IF new = {}
           THEN /\ last' = Result("transfer", obj_ids, "none", 0, {}, {})
                /\ store' = oids_exist_store(store, status_hashes(obj_ids, shallow))
                /\ pc' = "idle" /\ ad' = NoAd
                /\ tr' = [T EXCEPT !.active = FALSE]
           ELSE /\ store' = oids_exist_store(store, status_hashes(obj_ids, shallow))
                /\ pc' = "dirs" /\ tr' = T /\ ad' = NoAd /\ last' = last

\* faulty variant of DirStep, for sensitivity runs: the .dir object is added before the files of the
\* directory, which stay in file_ids for the last _add
DirStep_dirFirst ==
    /\ pc = "dirs"
    /\ \E d \in tr.dir_ids :
         AddEnter("dir_obj", [tr EXCEPT !.dir_ids = @ \ {d}, !.cur = d], <<d>>, <<d[1]>>,
                  FALSE, tr.verify, TRUE, tr.jobs, store)
    /\ UNCHANGED <<env, attempts, outcome, ops>>

\* _do_transfer lines 83-93: the next directory of dir_ids and its bound files
DirStep ==
    /\ pc = "dirs"
    /\ \E d \in tr.dir_ids :
         LET bound == tr.file_ids \cap TreeEntries(d)
             T == [tr EXCEPT !.dir_ids = @ \ {d}, !.file_ids = @ \ TreeEntries(d), !.cur = d]
         IN  IF bound = {}
             THEN AfterDirFiles(T, d, {}, store)
             ELSE \E given \in SeqsOf(bound) :
                    AddEnter("dir_files", T, given, [i \in 1..Len(given) |-> given[i][1]],
                             FALSE, T.verify, TRUE, T.jobs, store)
    /\ UNCHANGED <<env, attempts, outcome, ops>>

\* _do_transfer line 121: the files bound to no directory
RestStep ==
    /\ pc = "dirs"
    /\ tr.dir_ids = {}
    /\ IF tr.file_ids = {}
       THEN AfterRest(tr, {}, store)
       ELSE \E given \in SeqsOf(tr.file_ids) :
              AddEnter("rest", [tr EXCEPT !.file_ids = {}], given,
                       [i \in 1..Len(given) |-> given[i][1]],
                       FALSE, tr.verify, TRUE, tr.jobs, store)
    /\ UNCHANGED <<env, attempts, outcome, ops>>

\* ------------------------------------------------------------------- Next
Errors == {"OSError", "EMFILE"}

\* the batches handed to transfer(): a tree alone, trees with their files,
\* two trees sharing a file, files of no tree
Batches == {{t1}, {t1, f1, f2}, {t1, t2, f1, f2}, {t2, f2, f3}, {f1, f2, f3}}

AddSteps ==
    \/ TaskStart
    \/ \E i \in 1..Cardinality(Oids) : i <= Len(ad.st) /\ TaskOk(i)
    \/ \E i \in 1..Cardinality(Oids), exc \in Errors : i <= Len(ad.st) /\ TaskFail(i, exc)
    \/ AddReturn

\* the transfer protocol
Next ==
    \/ \E obj_ids \in Batches, shallow, same \in BOOLEAN :
          transfer(obj_ids, fsJobs, FALSE, shallow, same)
    \/ DirStep
    \/ RestStep
    \/ AddSteps
    \/ PoolExit
    \/ PoolRaise

Spec == Init /\ [][Next]_vars

\* the calls of one ODB, on the oids OdbOids and with copies made in turn
OdbOids == {f1, t1}
AddLists == UNION {{s \in [1..n -> OdbOids] : \A i, j \in 1..n : s[i] = s[j] => i = j} : n \in 1..MaxAddLen}

InitODB ==
    /\ src = Oids
    /\ read_only \in BOOLEAN
    /\ \E k \in DestKinds : isLocal = k[1] /\ chmodOK = k[2]
    /\ canReflink = TRUE
    /\ fsJobs = 1
    /\ store \in InitStoresODB
    /\ calc = NoCalc
    /\ InitCall

NextODB ==
    \/ \E oid \in OdbOids : \E data \in {oid[1], Junk} : add_bytes(oid, data)
    \/ \E oid \in OdbOids : delete(oid)
    \/ clear
    \/ \E used \in GcUsedSets, shallow \in BOOLEAN, dry \in BOOLEAN : gc(used, shallow, dry)
    \/ \E oid \in OdbOids : check(oid)
    \/ \E oid \in OdbOids : Protect(oid)
    \/ \E oid \in OdbOids : unprotect(oid)
    \/ \E oid \in OdbOids : set_exec(oid)
    \/ \E oid \in OdbOids : ExternalChange(oid)
    \/ \E given \in AddLists, good, check_exists, verify, on_error \in BOOLEAN :
          add(given, good, check_exists, verify, on_error, 1)
    \/ AddSteps

SpecODB == InitODB /\ [][NextODB]_vars

\* ------------------------------------------------------------- properties
\* a transfer call is running or was the last call, and its frame is kept
InTransfer == "new" \in DOMAIN tr
TransferOver == InTransfer /\ pc = "idle" /\ last.op = "transfer"
Started(o) == attempts[o] > 0
Completed(o) == Started(o) /\ outcome[o] # "running"
Closed(st, t) == st[t] # Absent => TreeEntries(t) \subseteq Present(st)

\* C1: during and after transfer(src, dest, obj_ids), every tree of obj_ids
\* that is present in dest has all the files it lists present in dest,
\* provided this held for that tree before the call
C1_TreeFilesPresent ==
    InTransfer =>
        \A t \in tr.obj_ids :
            (isdir(t) /\ Closed(tr.pre, t)) => Closed(store, t)

\* C2: when transfer returns and the copy of a file listed by a tree of the
\* batch failed during the call, that tree's .dir object was not written and
\* the failed set holds the tree and every failed file
C2_FailedFileBlocksTree ==
    (TransferOver /\ last.exc = "none") =>
        \A t \in tr.new :
            (isdir(t) /\ \E f \in TreeEntries(t) : outcome[f] = "OSError") =>
                /\ ~Started(t)
                /\ t \in last.failed
                /\ \A f \in Oids : outcome[f] = "OSError" => f \in last.failed

\* C3: the write of a tree's .dir object has started only if the copies of
\* all files of that tree that the batch transfers have completed
C3_FilesBeforeTree ==
    InTransfer =>
        \A t \in tr.new :
            (isdir(t) /\ Started(t)) =>
                \A f \in TreeEntries(t) \cap tr.new : Completed(f)

\* C3 witness: a .dir object is being written after both of its files were
\* copied in the same batch
C3_Witness ==
    /\ InTransfer /\ pc = "add"
    /\ outcome[t1] = "running"
    /\ {f1, f2} \subseteq tr.new
    /\ outcome[f1] = "ok" /\ outcome[f2] = "ok"

\* the oids the call asks for (with shallow false also the files of the
\* requested trees) and those that status() reports as existing in dest
Requested == status_hashes(tr.obj_ids, tr.shallow)
ExistedAtStart == oids_exist(tr.pre, Requested)

\* C4 as stated: transfer writes only oids that are in src and not in dest,
\* writes nothing and returns two empty sets when all requested oids are in
\* dest or src is dest, and a repeated transfer after a fully successful one
\* changes nothing
C4_OnlyAbsentWritten ==
    InTransfer =>
        /\ \A o \in Oids : Started(o) => (o \in src /\ tr.pre[o] = Absent /\ attempts[o] = 1)
        /\ (tr.same \/ Requested \subseteq Present(tr.pre)) =>
              /\ \A o \in Oids : ~Started(o)
              /\ TransferOver => (last.transferred = {} /\ last.failed = {})
        /\ tr.again => store = tr.pre

\* C4 amended: transfer writes only oids that are in src and that the status
\* check does not report as existing in dest (a local dest reports a stored
\* object whose bytes do not hash to its oid as not existing, unless it is
\* protected), each at most once; it writes nothing and returns two empty
\* sets when all requested oids are reported existing or src is dest; a
\* repeated transfer after a fully successful one changes nothing
C4_OnlyNewWritten ==
    InTransfer =>
        /\ \A o \in Oids : Started(o) => (o \in src /\ o \notin ExistedAtStart /\ attempts[o] = 1)
        /\ (tr.same \/ Requested \subseteq ExistedAtStart) =>
              /\ \A o \in Oids : ~Started(o)
              /\ TransferOver => (last.transferred = {} /\ last.failed = {})
        /\ tr.again => store = tr.pre

\* C4 witness: a transfer repeated after a fully successful one is over, and
\* the first one had stored the tree t1 and its files
C4_Witness ==
    /\ TransferOver /\ tr.again /\ ~tr.same
    /\ tr.obj_ids = {t1, f1, f2}
    /\ {t1, f1, f2} \subseteq Present(store)

NoEmfile == \A o \in Oids : outcome[o] # "EMFILE"
SomeFailed == \E o \in Oids : outcome[o] = "OSError"

\* C5 as stated: when an object of the batch fails with an error other than
\* EMFILE, the call returns normally, every object of the batch was attempted
\* and the failed set holds the failed oid
C5_FailureIsolated ==
    (TransferOver /\ SomeFailed /\ NoEmfile) =>
        /\ last.exc = "none"
        /\ \A o \in tr.new : Started(o)
        /\ \A o \in Oids : outcome[o] = "OSError" => o \in last.failed

\* C5 amended: as C5, but the .dir object of a tree is attempted only if no
\* file bound to it failed and none of its files is missing from both ODBs
C5_FailureIsolatedButTree ==
    (TransferOver /\ SomeFailed /\ NoEmfile) =>
        /\ last.exc = "none"
        /\ \A o \in tr.new :
              \/ Started(o)
              \/ /\ isdir(o)
                 /\ \/ \E f \in TreeEntries(o) : outcome[f] = "OSError"
                    \/ TreeEntries(o) \cap tr.missing # {}
        /\ \A o \in Oids : outcome[o] = "OSError" => o \in last.failed

\* C5 witness: the copy of f1 failed, f3 was copied after it, and the call
\* returned f1 in the failed set
C5_Witness ==
    /\ TransferOver /\ last.exc = "none"
    /\ outcome[f1] = "OSError" /\ outcome[f3] = "ok" /\ NoEmfile
    /\ f1 \in last.failed /\ f3 \in last.transferred

\* the EMFILE error of a copy has reached the thread that runs transfer()
ErrObserved ==
    /\ InTransfer
    /\ ~NoEmfile
    /\ \/ pc = "idle"
       \/ pc = "add" /\ ad.shutdown

\* C6: an object whose copy failed with EMFILE is attempted once and is in
\* no failed set, no copy starts once the error has been observed, and the
\* transfer call ends by raising EMFILE
C6_EmfileFatal ==
    [][ /\ \A o \in Oids :
              (InTransfer' /\ outcome'[o] = "EMFILE") =>
                  /\ attempts'[o] = 1
                  /\ o \notin tr'.failed_ids
                  /\ TransferOver' => o \notin last'.failed
        /\ (ErrObserved /\ ops' = ops) => attempts' = attempts
        /\ (TransferOver' /\ ~NoEmfile') => last'.exc = "EMFILE" ]_vars

\* C6 witness: a pool worker hit EMFILE, the executor was shut down and a
\* queued copy was cancelled
C6_Witness ==
    /\ InTransfer /\ pc = "add" /\ ad.shutdown
    /\ \E i \in 1..Len(ad.st) : ad.st[i] = "cancelled"
    /\ ~NoEmfile

\* a top-level call of the ODB finishes in this step
CallEnds(op) == pc' = "idle" /\ last'.op = op /\ (pc = "add" \/ ops' = ops + 1)
MutatingOps == {"add", "add_bytes", "delete", "clear", "gc"}

\* C7: on a read-only ODB add, add_bytes, delete, clear and gc raise the
\* permission error and leave the stored objects unchanged
C7_ReadOnlyRejects ==
    [][ \A op \in MutatingOps :
          (read_only /\ CallEnds(op)) =>
              (last'.exc = "ObjectDBPermissionError" /\ store' = store) ]_vars

\* the bytes stored under oid do not hash to oid (prefix before the suffix)
Corrupt(st, oid) == st[oid] # Absent /\ SplitHead(hash_file(st[oid])) # SplitHead(oid)

\* C8 as stated: check(oid) with hash verification of an object whose bytes
\* do not hash to its oid raises ObjectFormatError and removes the object
C8_CorruptRejected ==
    [][ CallEnds("check") =>
          \A o \in last'.arg :
              Corrupt(store, o) =>
                  (last'.exc = "ObjectFormatError" /\ store'[o] = Absent) ]_vars

\* C8 amended: the same for an object that is not in the protected state of
\* a local ODB; a protected object is accepted without hashing it
C8_UnprotectedCorruptRejected ==
    [][ CallEnds("check") =>
          \A o \in last'.arg :
              (Corrupt(store, o) /\ ~is_protected(store, o)) =>
                  (last'.exc = "ObjectFormatError" /\ store'[o] = Absent) ]_vars

\* C8 witness: check of the tree oid t1, stored with foreign bytes, raised
\* ObjectFormatError and t1 is gone
C8_Witness ==
    /\ pc = "idle" /\ last.op = "check" /\ last.arg = {t1}
    /\ last.exc = "ObjectFormatError"
    /\ store[t1] = Absent

\* a direct add call is running or was the last call
InAdd == "pre" \in DOMAIN ad /\ ad.who = "direct"
AddOver == InAdd /\ pc = "idle" /\ last.op = "add" /\ last.exc = "none"

\* C9: ObjectDB.add with check_exists writes no oid that was present, and
\* returns the number of oids it stored: the given ones less the present
\* ones less the failed ones; without check_exists it writes every given oid
C9_AddSkipsPresent ==
    /\ (InAdd /\ ad.check_exists) => \A o \in Oids : Started(o) => ad.pre[o] = Absent
    /\ AddOver =>
          /\ last.n = Cardinality({o \in Oids : outcome[o] = "ok"})
          /\ last.n = Cardinality(Range(ad.given)
                                  \ (IF ad.check_exists THEN Present(ad.pre) ELSE {}))
                      - Cardinality(last.failed)
          /\ ~ad.check_exists => \A o \in Range(ad.given) : Started(o)

\* C9 witness: add of f1 and t1 with check_exists returned 1: f1 was present
\* and skipped, t1 was stored
C9_Witness ==
    /\ AddOver /\ ad.check_exists
    /\ Range(ad.given) = {f1, t1}
    /\ ad.pre[f1] # Absent /\ ~Started(f1)
    /\ outcome[t1] = "ok" /\ last.n = 1

\* an add call returns without error and without a failed copy
AddSucceeds == CallEnds("add") /\ last'.exc = "none" /\ last'.failed = {}
Unprotects(o) == CallEnds("unprotect") /\ o \in last'.arg

\* C10 as stated: after a successful add to a local ODB every named object
\* is protected, and a protected object stays protected until unprotect
C10_ProtectedAfterAdd ==
    [][ /\ (isLocal /\ AddSucceeds) => \A o \in last'.arg : is_protected(store', o)
        /\ \A o \in Oids :
              (is_protected(store, o) /\ ~Unprotects(o)) => is_protected(store', o) ]_vars

\* a step that may end the protected state of o
Rewrites(o) ==
    \/ \E op \in {"unprotect", "set_exec", "add_bytes", "delete"} : CallEnds(op) /\ o \in last'.arg
    \/ CallEnds("clear")
    \/ CallEnds("gc")
    \/ pc = "add" /\ outcome[o] = "running" /\ outcome'[o] = "ok"

\* C10 amended: after an add to a local ODB whose filesystem accepts chmod
\* returned without error, every named object that is stored is protected;
\* a protected object stays protected until unprotect or set_exec is called
\* on it, it is written again or it is removed
C10_ProtectedWhereStored ==
    [][ /\ (isLocal /\ chmodOK /\ CallEnds("add") /\ last'.exc = "none") =>
              \A o \in last'.arg : store'[o] # Absent => is_protected(store', o)
        /\ \A o \in Oids :
              (is_protected(store, o) /\ ~Rewrites(o)) => is_protected(store', o) ]_vars

\* C10 witness: add has copied f1 into a local ODB and left it protected
C10_Witness ==
    /\ AddOver /\ isLocal
    /\ f1 \in last.arg /\ outcome[f1] = "ok"
    /\ is_protected(store, f1)

\* ============================================================ path mapping
\* Strings are sequences of one-character strings.
MaxOidLen == 3     \* longest oid string of the path mapping runs

Sep == "/"
\* the characters of an oid: digits of a digest and the dot of a suffix
OidChars == {"a", "b", "."}
Strings(S, n) == UNION {[1..k -> S] : k \in 1..n}
BadPath == <<"ValueError">>

\* the ODB state and call position, fixed while pure functions are applied
odbVars == <<src, store, read_only, isLocal, chmodOK, canReflink, fsJobs, pc, tr, ad, last, attempts, outcome, ops>>
InitIdle ==
    /\ src = Oids
    /\ read_only = FALSE
    /\ isLocal = TRUE
    /\ chmodOK = TRUE
    /\ canReflink = TRUE
    /\ fsJobs = 1
    /\ store = EmptyStore
    /\ InitCall

\* str.rstrip(sep)
RECURSIVE RStrip(_)
RStrip(p) == IF p # <<>> /\ p[Len(p)] = Sep THEN RStrip(SubSeq(p, 1, Len(p) - 1)) ELSE p

\* the non-empty components between separators, left to right
RECURSIVE Components(_, _)
Components(p, cur) ==
    IF p = <<>> THEN (IF cur = <<>> THEN <<>> ELSE <<cur>>)
    ELSE IF Head(p) = Sep
    THEN (IF cur = <<>> THEN <<>> ELSE <<cur>>) \o Components(Tail(p), <<>>)
    ELSE Components(Tail(p), Append(cur, Head(p)))

\* FileSystem.isabs (posix flavour)
isabs(p) == p # <<>> /\ p[1] = Sep

\* FileSystem.parts: repeated flavour.split of the right-stripped path
parts(p) ==
    LET q == RStrip(p)
    IN  (IF isabs(q) THEN <<<<Sep>>>> ELSE <<>>) \o Components(q, <<>>)

\* posixpath.join of two strings
join2(a, b) ==
    IF isabs(b) THEN b
    ELSE IF a = <<>> \/ a[Len(a)] = Sep THEN a \o b
    ELSE a \o <<Sep>> \o b

\* FileSystem.join(path, head, rest)
join(a, b, c) == join2(join2(a, b), c)

\* posixpath.normpath on the components: "." is dropped, ".." pops
RECURSIVE NormComps(_, _, _)
NormComps(cs, acc, abs) ==
    IF cs = <<>> THEN acc
    ELSE IF Head(cs) = <<".">> THEN NormComps(Tail(cs), acc, abs)
    ELSE IF Head(cs) = <<".", ".">>
    THEN (IF acc # <<>> /\ acc[Len(acc)] # <<".", ".">>
          THEN NormComps(Tail(cs), SubSeq(acc, 1, Len(acc) - 1), abs)
          ELSE IF abs THEN NormComps(Tail(cs), acc, abs)
          ELSE NormComps(Tail(cs), Append(acc, Head(cs)), abs))
    ELSE NormComps(Tail(cs), Append(acc, Head(cs)), abs)

RECURSIVE JoinComps(_)
JoinComps(cs) ==
    IF cs = <<>> THEN <<>>
    ELSE IF Len(cs) = 1 THEN cs[1]
    ELSE cs[1] \o <<Sep>> \o JoinComps(Tail(cs))

\* FileSystem.abspath of an absolute path: normpath
abspath(p) ==
    LET cs == NormComps(Components(p, <<>>), <<>>, isabs(p))
    IN  IF isabs(p) THEN <<Sep>> \o JoinComps(cs)
        ELSE IF cs = <<>> THEN <<".">> ELSE JoinComps(cs)

\* python slices s[:2] and s[2:]
Slice2(s) == SubSeq(s, 1, IF Len(s) < 2 THEN Len(s) ELSE 2)
SliceRest(s) == SubSeq(s, 3, Len(s))

\* faulty variant of _oid_parts, for sensitivity runs: the directory part
\* takes three characters
_oid_parts_three(oid) == <<SubSeq(oid, 1, IF Len(oid) < 3 THEN Len(oid) ELSE 3), SubSeq(oid, 4, Len(oid))>>

\* ObjectDB._oid_parts
_oid_parts(oid) == <<Slice2(oid), SliceRest(oid)>>

\* ObjectDB.oid_to_path, and LocalHashFileDB.oid_to_path when local
oid_to_path(root, local, oid) ==
    IF local
    THEN root \o <<Sep>> \o Slice2(oid) \o <<Sep>> \o SliceRest(oid)
    ELSE join(root, _oid_parts(oid)[1], _oid_parts(oid)[2])

\* ObjectDB.path_to_oid; BadPath stands for the ValueError
path_to_oid(root, path) ==
    LET self_path == IF isabs(path) THEN abspath(root) ELSE root
        self_parts == parts(self_path)
        ps == SubSeq(parts(path), Len(self_parts) + 1, Len(parts(path)))
    IN  IF Len(ps) = 2 /\ Len(ps[1]) = 2 THEN ps[1] \o ps[2] ELSE BadPath

\* the roots of the ODBs: a relative and an absolute normalized path
Roots == {<<"r">>, <<Sep, "r">>}
OidStrings == Strings(OidChars, MaxOidLen)

\* a path of the form root/<2 chars>/<rest>
StoredPath(root, h, r) == root \o <<Sep>> \o h \o <<Sep>> \o r

InitPath ==
    /\ InitIdle
    /\ \E root \in Roots, local \in BOOLEAN, oid \in OidStrings, oid2 \in OidStrings :
         calc = [fn |-> "input", root |-> root, local |-> local, oid |-> oid, oid2 |-> oid2]

\* oid_to_path applied to both oids
OidToPath ==
    /\ calc.fn = "input"
    /\ calc' = [fn |-> "oid_to_path", root |-> calc.root, local |-> calc.local,
                oid |-> calc.oid, oid2 |-> calc.oid2,
                path |-> oid_to_path(calc.root, calc.local, calc.oid),
                path2 |-> oid_to_path(calc.root, calc.local, calc.oid2)]
    /\ UNCHANGED odbVars

\* path_to_oid applied to the path of the first oid
PathToOid ==
    /\ calc.fn = "oid_to_path"
    /\ calc' = [fn |-> "path_to_oid", root |-> calc.root, local |-> calc.local,
                oid |-> calc.oid, oid2 |-> calc.oid2,
                path |-> calc.path, path2 |-> calc.path2,
                back |-> path_to_oid(calc.root, calc.path)]
    /\ UNCHANGED odbVars

\* path_to_oid applied to a stored path built from two characters and a rest
StoredPathToOid ==
    /\ calc.fn = "input"
    /\ Len(calc.oid) > 2
    /\ LET p == StoredPath(calc.root, Slice2(calc.oid), SliceRest(calc.oid))
       IN  calc' = [fn |-> "stored_path_to_oid", root |-> calc.root, local |-> calc.local,
                    oid |-> calc.oid, oid2 |-> calc.oid2,
                    stored |-> p, got |-> path_to_oid(calc.root, p)]
    /\ UNCHANGED odbVars

\* oid_to_path applied to the oid of the stored path
OidToStoredPath ==
    /\ calc.fn = "stored_path_to_oid"
    /\ calc.got # BadPath
    /\ calc' = [fn |-> "oid_to_stored_path", root |-> calc.root, local |-> calc.local,
                oid |-> calc.oid, oid2 |-> calc.oid2,
                stored |-> calc.stored, got |-> calc.got,
                again |-> oid_to_path(calc.root, calc.local, calc.got)]
    /\ UNCHANGED odbVars

NextPath ==
    \/ OidToPath
    \/ PathToOid
    \/ StoredPathToOid
    \/ OidToStoredPath

SpecPath == InitPath /\ [][NextPath]_vars

\* C11: for an oid of more than two characters path_to_oid(oid_to_path(oid))
\* is the oid; for a path root/<2 chars>/<rest> path_to_oid succeeds and
\* oid_to_path of its result is the path; the paths of two different oids
\* differ
C11_PathRoundTrip ==
    /\ (calc.fn = "path_to_oid" /\ Len(calc.oid) > 2) => calc.back = calc.oid
    /\ calc.fn = "stored_path_to_oid" => calc.got # BadPath
    /\ calc.fn = "oid_to_stored_path" => calc.again = calc.stored
    /\ (calc.fn \in {"oid_to_path", "path_to_oid"}
        /\ Len(calc.oid) > 2 /\ Len(calc.oid2) > 2 /\ calc.oid # calc.oid2)
          => calc.path # calc.path2

\* C11 witness: the oid "ab." was mapped to a path under the absolute root
\* of a local ODB and back
C11_Witness ==
    /\ calc.fn = "path_to_oid"
    /\ calc.oid = <<"a", "b", ".">> /\ calc.root = <<Sep, "r">> /\ calc.local
    /\ calc.path = <<Sep, "r", Sep, "a", "b", Sep, ".">>
    /\ calc.back = calc.oid

\* ======================================================= content addressing
MaxBytesLen == 2   \* longest byte sequence hashed and stored
MaxEarlier == 1    \* adds of other byte sequences before the add under study

CR == "\r"
LF == "\n"
NUL == "0"
Bytes == {CR, LF, NUL}
ByteStrings == {<<>>} \cup Strings(Bytes, MaxBytesLen)
HashNames == {"md5", "md5-dos2unix"}

\* hash.dos2unix: data.replace(b"\r\n", b"\n")
RECURSIVE dos2unix(_)
dos2unix(data) ==
    IF data = <<>> THEN <<>>
    ELSE IF Len(data) >= 2 /\ data[1] = CR /\ data[2] = LF
    THEN <<LF>> \o dos2unix(SubSeq(data, 3, Len(data)))
    ELSE <<Head(data)>> \o dos2unix(Tail(data))

\* istextfile.istextblock: a block holding a null byte is binary
istextblock(block) == \A i \in 1..Len(block) : block[i] # NUL

\* hasher.hexdigest(): an injective map of the hashed bytes to a string of
\* digest characters, three characters longer than the data
HexDigit(byte) == IF byte = CR THEN "c" ELSE IF byte = LF THEN "a" ELSE "0"
hexdigest(data) == [i \in 1..(Len(data) + 3) |-> IF i <= Len(data) THEN HexDigit(data[i]) ELSE "f"]

\* fobj_md5(fobj, name=name) on a stream holding data (one chunk)
fobj_md5(data, name) ==
    IF name = "md5-dos2unix" /\ data # <<>> /\ istextblock(data)
    THEN hexdigest(dos2unix(data))
    ELSE hexdigest(data)

\* the ODB of the content addressing runs
HashRoot == <<Sep, "r">>
ObjPath(oid) == oid_to_path(HashRoot, FALSE, oid)

\* faulty variant of copy_file, for sensitivity runs: the copy is made in
\* text mode and rewrites line ends
copy_file_text(files, data, to_path) ==
    [q \in DOMAIN files \cup {to_path} |-> IF q = to_path THEN dos2unix(data) ELSE files[q]]

\* generic.copy of one file: the destination holds the bytes of the source
copy_file(files, data, to_path) ==
    [q \in DOMAIN files \cup {to_path} |-> IF q = to_path THEN data ELSE files[q]]

\* ObjectDB.add(path, fs, oid, check_exists=...) of one file holding data
odb_add(files, data, oid, check_exists) ==
    IF check_exists /\ ObjPath(oid) \in DOMAIN files
    THEN files
    ELSE copy_file(files, data, ObjPath(oid))

InitHash ==
    /\ InitIdle
    /\ \E name \in HashNames, b \in ByteStrings :
         calc = [fn |-> "input", name |-> name, b |-> b, files |-> <<>>,
                 earlier |-> 0, clean |-> TRUE]

\* an earlier add of another byte sequence under its own oid
AddEarlier ==
    /\ calc.fn = "input"
    /\ calc.earlier < MaxEarlier
    /\ \E b2 \in ByteStrings \ {calc.b}, check_exists \in BOOLEAN :
         calc' = [calc EXCEPT
                    !.files = odb_add(@, b2, fobj_md5(b2, calc.name), check_exists),
                    !.earlier = @ + 1,
                    !.clean = @ /\ fobj_md5(b2, calc.name) # fobj_md5(calc.b, calc.name)]
    /\ UNCHANGED odbVars

\* the byte sequence is hashed, twice
HashBytes ==
    /\ calc.fn = "input"
    /\ calc' = [fn |-> "hashed", name |-> calc.name, b |-> calc.b, files |-> calc.files,
                earlier |-> calc.earlier, clean |-> calc.clean,
                oid |-> fobj_md5(calc.b, calc.name), oid2 |-> fobj_md5(calc.b, calc.name)]
    /\ UNCHANGED odbVars

\* ObjectDB.add of a source file holding the bytes, under their oid
AddBytesFile ==
    /\ calc.fn = "hashed"
    /\ \E check_exists \in BOOLEAN :
         calc' = [calc EXCEPT !.fn = "added",
                              !.files = odb_add(@, calc.b, calc.oid, check_exists)]
    /\ UNCHANGED odbVars

\* ObjectDB.get(oid) and a read of the object's path
GetRead ==
    /\ calc.fn = "added"
    /\ calc' = [fn |-> "read", name |-> calc.name, b |-> calc.b, files |-> calc.files,
                earlier |-> calc.earlier, clean |-> calc.clean,
                oid |-> calc.oid, oid2 |-> calc.oid2,
                read |-> calc.files[ObjPath(calc.oid)]]
    /\ UNCHANGED odbVars

NextHash ==
    \/ AddEarlier
    \/ HashBytes
    \/ AddBytesFile
    \/ GetRead

SpecHash == InitHash /\ [][NextHash]_vars

MaxEntries == 2    \* Tree.add calls made on the tree under study

\* python None as a HashInfo reference, and HashInfo() with no name and value
NoHash == [name |-> "nohash", value |-> <<>>]
EmptyHashInfo == [name |-> "None", value |-> <<>>]
h1 == <<"h1">>
h2 == <<"h2">>
sub == <<"h1", "dir">>
HashInfos ==
    {NoHash, [name |-> "md5", value |-> h1],
     [name |-> "md5-dos2unix", value |-> h1], [name |-> "md5", value |-> sub]}

\* Meta: the fields used here; <<>> is None
NoMeta == [size |-> <<>>, md5 |-> <<>>]
Metas == {NoMeta, [size |-> <<"3">>, md5 |-> <<>>]}

\* keys ("a", "b") and ("b",); a part is a string
TreeKeys == {<< <<"a">>, <<"b">> >>, << <<"b">> >>}

EmptyDict == [x \in {} |-> <<>>]
NewTree == [dict |-> <<>>, oid |-> <<>>, name |-> "None", content |-> <<>>,
            with_meta |-> FALSE, fresh |-> FALSE]

\* bool(HashInfo): a value is set
Truthy(hi) == hi.value # <<>>

\* dict[key] = (meta, oid) on an insertion-ordered dict
RECURSIVE DictSet(_, _, _, _)
DictSet(d, key, meta, hi) ==
    IF d = <<>> THEN <<[key |-> key, meta |-> meta, hi |-> hi]>>
    ELSE IF Head(d).key = key THEN <<[key |-> key, meta |-> meta, hi |-> hi]>> \o Tail(d)
    ELSE <<Head(d)>> \o DictSet(Tail(d), key, meta, hi)

DictKeys(d) == {d[i].key : i \in 1..Len(d)}
DictGet(d, key) == LET i == CHOOSE j \in 1..Len(d) : d[j].key = key IN d[i]

\* Tree.add
TreeAdd(t, key, meta, hi) == [t EXCEPT !.dict = DictSet(@, key, meta, hi), !.fresh = FALSE]

\* order of str: "/" sorts before the letters
CharRank(c) == IF c = Sep THEN 0 ELSE IF c = "a" THEN 1 ELSE 2
RECURSIVE StrLE(_, _)
StrLE(x, y) ==
    IF x = <<>> THEN TRUE
    ELSE IF y = <<>> THEN FALSE
    ELSE IF CharRank(Head(x)) < CharRank(Head(y)) THEN TRUE
    ELSE IF CharRank(Head(x)) > CharRank(Head(y)) THEN FALSE
    ELSE StrLE(Tail(x), Tail(y))

\* sorted(..., key=itemgetter("relpath")): a stable sort
RECURSIVE InsertSorted(_, _)
InsertSorted(lst, e) ==
    IF lst = <<>> THEN <<e>>
    ELSE IF StrLE(Head(lst)["relpath"], e["relpath"]) THEN <<Head(lst)>> \o InsertSorted(Tail(lst), e)
    ELSE <<e>> \o lst
RECURSIVE SortedByRelpath(_)
SortedByRelpath(lst) ==
    IF lst = <<>> THEN <<>>
    ELSE InsertSorted(SortedByRelpath(SubSeq(lst, 1, Len(lst) - 1)), lst[Len(lst)])

\* Tree.as_list._hi_to_dict
_hi_to_dict(hi) ==
    IF ~Truthy(hi) THEN EmptyDict
    ELSE IF hi.name = "md5-dos2unix" THEN "md5" :> hi.value
    ELSE hi.name :> hi.value

\* Meta.to_dict (size and md5)
MetaToDict(meta) ==
    (IF meta.size # <<>> THEN "size" :> meta.size ELSE EmptyDict)
    @@ (IF meta.md5 # <<>> THEN "md5" :> meta.md5 ELSE EmptyDict)

\* faulty variant of as_list, for sensitivity runs: the entries are not
\* sorted
as_list_unsorted(d, with_meta) ==
    [i \in 1..Len(d) |->
        ("relpath" :> JoinComps(d[i].key))
        @@ _hi_to_dict(d[i].hi)
        @@ (IF with_meta THEN MetaToDict(d[i].meta) ELSE EmptyDict)]

\* Tree.as_list: one dict per entry, sorted by relpath
as_list(d, with_meta) ==
    SortedByRelpath([i \in 1..Len(d) |->
        ("relpath" :> JoinComps(d[i].key))
        @@ _hi_to_dict(d[i].hi)
        @@ (IF with_meta THEN MetaToDict(d[i].meta) ELSE EmptyDict)])

\* Tree.as_bytes: the JSON text of the list, which determines the list
as_bytes(d, with_meta) == as_list(d, with_meta)

\* Tree.digest(with_meta, name)
digest(t, with_meta, name) ==
    [t EXCEPT !.oid = Append(hash_file([content |-> as_bytes(t.dict, FALSE)]), "dir"),
              !.name = name,
              !.content = as_bytes(t.dict, with_meta),
              !.with_meta = with_meta,
              !.fresh = TRUE]

\* str.split(sep): empty strings are kept
RECURSIVE PySplit(_, _)
PySplit(p, cur) ==
    IF p = <<>> THEN <<cur>>
    ELSE IF Head(p) = Sep THEN <<cur>> \o PySplit(Tail(p), <<>>)
    ELSE PySplit(Tail(p), Append(cur, Head(p)))

Without(e, k) == [x \in DOMAIN e \ {k} |-> e[x]]

\* Meta.from_dict
MetaFromDict(e) ==
    [size |-> IF "size" \in DOMAIN e THEN e["size"] ELSE <<>>,
     md5 |-> IF "md5" \in DOMAIN e THEN e["md5"] ELSE <<>>]

\* HashInfo.from_dict; the unpacking of d.items() needs exactly one item
BadUnpack == [name |-> "ValueError", value |-> <<>>]
HashInfoFromDict(e) ==
    IF DOMAIN e = {} THEN EmptyHashInfo
    ELSE IF Cardinality(DOMAIN e) = 1
    THEN LET k == CHOOSE x \in DOMAIN e : TRUE IN [name |-> k, value |-> e[k]]
    ELSE BadUnpack

\* faulty variant of FromListEntry, for sensitivity runs: relpath is not
\* split into the parts of the key
FromListEntry_unsplit(raw, hash_name) ==
    LET entry == Without(raw, "relpath")
        meta == MetaFromDict(entry)
    IN  [key |-> <<raw["relpath"]>>,
         meta |-> meta,
         hi |-> IF hash_name # "None"
                THEN [name |-> hash_name, value |-> meta.md5]
                ELSE HashInfoFromDict(entry)]

\* Tree.from_list: the entry built from one dict of the list
FromListEntry(raw, hash_name) ==
    LET entry == Without(raw, "relpath")
        meta == MetaFromDict(entry)
    IN  [key |-> PySplit(raw["relpath"], <<>>),
         meta |-> meta,
         hi |-> IF hash_name # "None"
                THEN [name |-> hash_name, value |-> meta.md5]
                ELSE HashInfoFromDict(entry)]

RECURSIVE from_list(_, _)
from_list(lst, hash_name) ==
    IF lst = <<>> THEN <<>>
    ELSE LET e == FromListEntry(lst[Len(lst)], hash_name)
         IN  DictSet(from_list(SubSeq(lst, 1, Len(lst) - 1), hash_name), e.key, e.meta, e.hi)

NoLoaded == [ok |-> "none", dict |-> <<>>, oid |-> <<>>, name |-> "None"]

\* Tree.load(odb, hash_info) with hash_name=None
load(trees, odbname, oid, name) ==
    IF oid \notin DOMAIN trees
    THEN [ok |-> "FileNotFoundError", dict |-> <<>>, oid |-> <<>>, name |-> "None"]
    ELSE LET hash_name == IF odbname = "md5-dos2unix" THEN "md5-dos2unix" ELSE "None"
             d == from_list(trees[oid], hash_name)
         IN  IF \E i \in 1..Len(d) : d[i].hi = BadUnpack
             THEN [ok |-> "ValueError", dict |-> <<>>, oid |-> <<>>, name |-> "None"]
             ELSE [ok |-> "tree", dict |-> d, oid |-> oid, name |-> name]

\* add_update_tree: odb.add(tree.path, tree.fs, tree.oid)
add_update_tree(trees, t) ==
    IF t.oid \in DOMAIN trees THEN trees
    ELSE [o \in DOMAIN trees \cup {t.oid} |-> IF o = t.oid THEN t.content ELSE trees[o]]

NoRes == [kind |-> "none", val |-> 0]

\* faulty variant of du, for sensitivity runs: a missing object counts zero
RECURSIVE du_partial(_, _)
du_partial(sizes, d) ==
    IF d = <<>> THEN [kind |-> "sum", val |-> 0]
    ELSE LET rest == du_partial(sizes, Tail(d))
         IN  IF Head(d).hi = NoHash THEN [kind |-> "AttributeError", val |-> 0]
             ELSE IF rest.kind # "sum" THEN rest
             ELSE IF Head(d).hi.value \notin DOMAIN sizes THEN rest
             ELSE [kind |-> "sum", val |-> sizes[Head(d).hi.value] + rest.val]

\* du(odb, tree): the sum of fs.size over the entries, None on
\* FileNotFoundError; an entry without HashInfo has no .value
RECURSIVE du(_, _)
du(sizes, d) ==
    IF d = <<>> THEN [kind |-> "sum", val |-> 0]
    ELSE IF Head(d).hi = NoHash THEN [kind |-> "AttributeError", val |-> 0]
    ELSE IF Head(d).hi.value \notin DOMAIN sizes THEN [kind |-> "None", val |-> 0]
    ELSE LET rest == du(sizes, Tail(d))
         IN  IF rest.kind # "sum" THEN rest
             ELSE [kind |-> "sum", val |-> sizes[Head(d).hi.value] + rest.val]

\* Tree.iteritems(): _load reads meta.obj of an entry whose hash is a .dir
\* hash, an attribute Meta does not have
iteritems(d) ==
    IF \E i \in 1..Len(d) : Truthy(d[i].hi) /\ isdir(d[i].hi.value)
    THEN [kind |-> "AttributeError", val |-> 0]
    ELSE [kind |-> "items", val |-> Len(d)]

\* the file objects of the ODB and their sizes
ObjSizes == [o \in {h1} |-> 1]

InitTree ==
    /\ InitIdle
    /\ \E odbname \in HashNames :
         calc = [fn |-> "new", t |-> NewTree, adds |-> 0, odbname |-> odbname,
                 sizes |-> ObjSizes, trees |-> EmptyDict, loaded |-> NoLoaded, res |-> NoRes]

TreeStep(fn, t, trees, loaded, res) ==
    /\ calc' = [calc EXCEPT !.fn = fn, !.t = t, !.trees = trees, !.loaded = loaded, !.res = res]
    /\ UNCHANGED odbVars

\* tree.add(key, meta, oid)
DoTreeAdd ==
    /\ calc.adds < MaxEntries
    /\ \E key \in TreeKeys, meta \in Metas, hi \in HashInfos :
         /\ calc' = [calc EXCEPT !.fn = "add", !.t = TreeAdd(calc.t, key, meta, hi),
                                 !.adds = @ + 1, !.loaded = NoLoaded, !.res = NoRes]
         /\ UNCHANGED odbVars

\* tree.digest(with_meta=..., name=odb.hash_name)
DoDigest ==
    \E with_meta \in BOOLEAN :
        TreeStep("digest", digest(calc.t, with_meta, calc.odbname), calc.trees, NoLoaded, NoRes)

\* add_update_tree(odb, tree)
DoAddUpdateTree ==
    /\ calc.t.oid # <<>>
    /\ TreeStep("add_update_tree", calc.t, add_update_tree(calc.trees, calc.t), NoLoaded, NoRes)

\* Tree.load(odb, tree.hash_info)
DoLoad ==
    /\ calc.t.oid # <<>>
    /\ TreeStep(IF calc.fn = "add_update_tree" THEN "load_stored" ELSE "load",
                calc.t, calc.trees,
                load(calc.trees, calc.odbname, calc.t.oid, calc.t.name), NoRes)

\* du(odb, tree)
DoDu == TreeStep("du", calc.t, calc.trees, NoLoaded, du(calc.sizes, calc.t.dict))

\* list(tree.iteritems())
DoIterItems == TreeStep("iteritems", calc.t, calc.trees, NoLoaded, iteritems(calc.t.dict))

NextTree ==
    \/ DoTreeAdd
    \/ DoDigest
    \/ DoAddUpdateTree
    \/ DoLoad
    \/ DoDu
    \/ DoIterItems

SpecTree == InitTree /\ [][NextTree]_vars

\* the tree built by the Tree.add calls of one insertion order
RECURSIVE BuildTree(_)
BuildTree(order) ==
    IF order = <<>> THEN NewTree
    ELSE LET e == order[Len(order)]
         IN  TreeAdd(BuildTree(SubSeq(order, 1, Len(order) - 1)), e.key, e.meta, e.hi)

\* the insertion orders of the entries of a dict
Orders(d) ==
    {[i \in 1..Len(d) |-> d[p[i]]] :
        p \in {q \in [1..Len(d) -> 1..Len(d)] : \A i, j \in 1..Len(d) : q[i] = q[j] => i = j}}

\* C13: digest() gives the same HashInfo for every order in which the
\* entries of the tree are inserted, and its value ends in one "dir" suffix
C13_DigestOrderFree ==
    calc.fn = "digest" =>
        /\ \A order \in Orders(calc.t.dict) :
              LET u == digest(BuildTree(order), calc.t.with_meta, calc.t.name)
              IN  u.oid = calc.t.oid /\ u.name = calc.t.name
        /\ Len(calc.t.oid) = 2 /\ calc.t.oid[2] = "dir"

\* C13 witness: ("b",) was inserted before ("a", "b") and the digest is the
\* one of the list that starts with "a/b"
C13_Witness ==
    /\ calc.fn = "digest"
    /\ Len(calc.t.dict) = 2
    /\ calc.t.dict[1].key = << <<"b">> >>
    /\ calc.t.dict[1].hi # calc.t.dict[2].hi
    /\ calc.t.oid[1][1]["relpath"] = <<"a", Sep, "b">>

\* the loaded tree has the keys and the hash infos of the tree, and its oid
SameTree(loaded, t) ==
    /\ loaded.ok = "tree"
    /\ DictKeys(loaded.dict) = DictKeys(t.dict)
    /\ \A k \in DictKeys(t.dict) : DictGet(loaded.dict, k).hi = DictGet(t.dict, k).hi
    /\ loaded.oid = t.oid /\ loaded.name = t.name

\* Tree.load follows t.digest() and add_update_tree(odb, t)
LoadedAfterStore == calc.fn = "load_stored" /\ calc.t.fresh /\ ~calc.t.with_meta

\* C14 as stated: after t.digest() and adding t to an ODB, Tree.load of its
\* hash info gives a tree with the same keys, hash infos and oid
C14_LoadRoundTrip == LoadedAfterStore => SameTree(calc.loaded, calc.t)

\* C14 amended: the same when every entry has a hash whose name is the
\* hash_name of the ODB and the object stored under the oid is the tree's
\* serialization
C14_LoadRoundTripNamed ==
    (/\ LoadedAfterStore
     /\ calc.trees[calc.t.oid] = calc.t.content
     /\ \A i \in 1..Len(calc.t.dict) :
           Truthy(calc.t.dict[i].hi) /\ calc.t.dict[i].hi.name = calc.odbname)
        => SameTree(calc.loaded, calc.t)

\* C14 witness: a tree of two md5-dos2unix entries was loaded back from an
\* ODB whose hash_name is md5-dos2unix
C14_Witness ==
    /\ LoadedAfterStore
    /\ calc.odbname = "md5-dos2unix"
    /\ Len(calc.t.dict) = 2
    /\ \A i \in 1..2 : calc.t.dict[i].hi.name = "md5-dos2unix"
    /\ SameTree(calc.loaded, calc.t)

\* C15: once the tree has an oid no step changes its entries, and the oid
\* is the digest of the entries it holds
C15_FrozenAfterDigest ==
    [][ calc.t.oid # <<>> =>
          /\ calc'.t.dict = calc.t.dict
          /\ calc'.t.oid = Append(hash_file([content |-> as_bytes(calc'.t.dict, FALSE)]), "dir") ]_vars

RECURSIVE SumSizes(_, _)
SumSizes(sizes, d) ==
    IF d = <<>> THEN 0 ELSE sizes[Head(d).hi.value] + SumSizes(sizes, Tail(d))

\* C16: for a tree whose entries have hashes, du is the sum of the stored
\* sizes of the entries when every object is in the ODB, and None when one
\* is missing
C16_DuAllOrNone ==
    (calc.fn = "du" /\ \A i \in 1..Len(calc.t.dict) : calc.t.dict[i].hi # NoHash) =>
        IF \A i \in 1..Len(calc.t.dict) : calc.t.dict[i].hi.value \in DOMAIN calc.sizes
        THEN calc.res = [kind |-> "sum", val |-> SumSizes(calc.sizes, calc.t.dict)]
        ELSE calc.res.kind = "None"

\* C16 witness: the object of the first entry is stored, the one of the
\* second entry is missing, and du returned None
C16_Witness ==
    /\ calc.fn = "du"
    /\ Len(calc.t.dict) = 2
    /\ calc.t.dict[1].hi.value \in DOMAIN calc.sizes
    /\ calc.t.dict[2].hi # NoHash
    /\ calc.t.dict[2].hi.value \notin DOMAIN calc.sizes
    /\ calc.res.kind = "None"

\* ==================================================================== diff
MaxDiffEntries == 2    \* Tree.add calls that build one tree given to diff

\* ROOT = ("",): one part, the empty string
ROOT == << <<>> >>

\* python None as an object reference
NoObj == [kind |-> "None", dict |-> <<>>, hash_info |-> NoHash, oid |-> <<>>]

\* HashFile(path, fs, hash_info): hash_info.value is asserted, oid is the value
HashFileObj(hi) == [kind |-> "file", dict |-> <<>>, hash_info |-> hi, oid |-> hi.value]

\* a Tree as an object: hash_info and oid stay None until digest()
TreeObj(t) ==
    [kind |-> "tree", dict |-> t.dict,
     hash_info |-> IF t.oid = <<>> THEN NoHash ELSE [name |-> t.name, value |-> t.oid],
     oid |-> t.oid]

\* faulty variant of Object_bool, for sensitivity runs: the truth value of
\* a tree is taken from __len__
Object_bool_len(obj) ==
    IF obj.kind = "tree" THEN obj.dict # <<>> ELSE obj.kind # "None" /\ obj.oid # <<>>

\* bool(obj): None is false, Object.__bool__ is bool(self.oid)
Object_bool(obj) == obj.kind # "None" /\ obj.oid # <<>>

\* faulty variant of _get_keys, for sensitivity runs: no root key
_get_keys_noroot(obj) ==
    IF ~Object_bool(obj) THEN {}
    ELSE IF obj.kind = "tree" THEN DictKeys(obj.dict) ELSE {}

\* diff._get_keys, as the set made of the list
_get_keys(obj) ==
    IF ~Object_bool(obj) THEN {}
    ELSE {ROOT} \cup (IF obj.kind = "tree" THEN DictKeys(obj.dict) ELSE {})

\* diff._get: (meta, oid) of the key; NoMeta and NoHash are None
_get(obj, key) ==
    IF ~Object_bool(obj) \/ key = ROOT
    THEN [meta |-> NoMeta, hi |-> IF Object_bool(obj) THEN obj.hash_info ELSE NoHash]
    ELSE IF obj.kind # "tree" THEN [meta |-> NoMeta, hi |-> NoHash]
    ELSE IF key \in DictKeys(obj.dict)
    THEN [meta |-> DictGet(obj.dict, key).meta, hi |-> DictGet(obj.dict, key).hi]
    ELSE [meta |-> NoMeta, hi |-> NoHash]

\* the Meta that cache.check returns, and None
CacheMeta == <<"meta">>
NoCacheMeta == <<>>

\* faulty variant of _cache_check, for sensitivity runs: every object is
\* taken for one of the cache
_cache_check_found(cache, v) == [cache_meta |-> CacheMeta, cache |-> cache]

\* diff._cache_check(oid, cache): cache.check(oid) removes a corrupted
\* object and protects a good one; FileNotFoundError and ObjectFormatError
\* give None.  The memo of functools.cache returns what the first call did.
_cache_check(cache, v) ==
    IF v \notin DOMAIN cache THEN [cache_meta |-> NoCacheMeta, cache |-> cache]
    ELSE IF cache[v] = "corrupt"
    THEN [cache_meta |-> NoCacheMeta, cache |-> [x \in DOMAIN cache \ {v} |-> cache[x]]]
    ELSE [cache_meta |-> CacheMeta, cache |-> [cache EXCEPT ![v] = "protected"]]

\* TreeEntry(cache_meta, key, meta, oid)
TreeEntry(cache_meta, key, meta, hi) ==
    [cache_meta |-> cache_meta, key |-> key, meta |-> meta, oid |-> hi]

\* TreeEntry.__bool__: bool(self.oid)
TreeEntry_bool(e) == Truthy(e.oid)

\* TreeEntry.__eq__ of attrs: cache_meta and meta have eq=False
TreeEntry_eq(a, b) == a.key = b.key /\ a.oid = b.oid

\* faulty variant of Change_typ, for sensitivity runs: an old entry with a
\* hash is a deletion whatever the new entry is
Change_typ_oldfirst(old, new) ==
    IF ~TreeEntry_bool(old) /\ ~TreeEntry_bool(new) THEN "unchanged"
    ELSE IF TreeEntry_bool(old) THEN "delete"
    ELSE "add"

\* Change.typ
Change_typ(old, new) ==
    IF ~TreeEntry_bool(old) /\ ~TreeEntry_bool(new) THEN "unchanged"
    ELSE IF TreeEntry_bool(old) /\ ~TreeEntry_bool(new) THEN "delete"
    ELSE IF ~TreeEntry_bool(old) /\ TreeEntry_bool(new) THEN "add"
    ELSE IF ~TreeEntry_eq(old, new) THEN "modify"
    ELSE "unchanged"

Change(old, new) == [old |-> old, new |-> new, typ |-> Change_typ(old, new)]

\* DiffResult() and the cache as the call leaves it
DiffResult(cache) ==
    [added |-> <<>>, modified |-> <<>>, deleted |-> <<>>, unchanged |-> <<>>,
     cache |-> cache]

\* faulty variant of DiffStep, for sensitivity runs: an unchanged entry is
\* left out of the result
DiffStep_skip_unchanged(old, new, ret, key) ==
    LET o == _get(old, key)
        n == _get(new, key)
        oc == IF Truthy(o.hi) THEN _cache_check(ret.cache, o.hi.value)
              ELSE [cache_meta |-> NoCacheMeta, cache |-> ret.cache]
        nc == IF Truthy(n.hi) THEN _cache_check(oc.cache, n.hi.value)
              ELSE [cache_meta |-> NoCacheMeta, cache |-> oc.cache]
        change == Change(TreeEntry(oc.cache_meta, key, o.meta, o.hi),
                         TreeEntry(nc.cache_meta, key, n.meta, n.hi))
        r == [ret EXCEPT !.cache = nc.cache]
    IN  IF change.typ = "add" THEN [r EXCEPT !.added = Append(@, change)]
        ELSE IF change.typ = "modify" THEN [r EXCEPT !.modified = Append(@, change)]
        ELSE IF change.typ = "delete" THEN [r EXCEPT !.deleted = Append(@, change)]
        ELSE r

\* one turn of the loop of diff
DiffStep(old, new, ret, key) ==
    LET o == _get(old, key)
        n == _get(new, key)
        oc == IF Truthy(o.hi) THEN _cache_check(ret.cache, o.hi.value)
              ELSE [cache_meta |-> NoCacheMeta, cache |-> ret.cache]
        nc == IF Truthy(n.hi) THEN _cache_check(oc.cache, n.hi.value)
              ELSE [cache_meta |-> NoCacheMeta, cache |-> oc.cache]
        change == Change(TreeEntry(oc.cache_meta, key, o.meta, o.hi),
                         TreeEntry(nc.cache_meta, key, n.meta, n.hi))
        r == [ret EXCEPT !.cache = nc.cache]
    IN  IF change.typ = "add" THEN [r EXCEPT !.added = Append(@, change)]
        ELSE IF change.typ = "modify" THEN [r EXCEPT !.modified = Append(@, change)]
        ELSE IF change.typ = "delete" THEN [r EXCEPT !.deleted = Append(@, change)]
        ELSE [r EXCEPT !.unchanged = Append(@, change)]

RECURSIVE DiffLoop(_, _, _, _)
DiffLoop(old, new, cache, order) ==
    IF order = <<>> THEN DiffResult(cache)
    ELSE DiffStep(old, new, DiffLoop(old, new, cache, SubSeq(order, 1, Len(order) - 1)),
                  order[Len(order)])

\* the orders in which a set of keys can be iterated
KeyOrders(S) ==
    {s \in [1..Cardinality(S) -> S] : \A i, j \in 1..Cardinality(S) : s[i] = s[j] => i = j}

\* diff(old, new, cache) when the union of the keys is iterated in this order
diff(old, new, cache, order) ==
    IF old.kind = "None" /\ new.kind = "None" THEN DiffResult(cache)
    ELSE DiffLoop(old, new, cache, order)

\* the entries given to Tree.add
DiffEntries ==
    {[key |-> k, meta |-> v.meta, hi |-> v.hi] :
        k \in TreeKeys,
        v \in {[meta |-> NoMeta, hi |-> NoHash],
               [meta |-> NoMeta, hi |-> [name |-> "md5", value |-> h1]],
               [meta |-> [size |-> <<"3">>, md5 |-> <<>>], hi |-> [name |-> "md5", value |-> h1]],
               [meta |-> NoMeta, hi |-> [name |-> "md5", value |-> h2]]}}

\* the trees built by at most MaxDiffEntries calls of Tree.add
DiffTrees ==
    {BuildTree(s) : s \in UNION {[1..n -> DiffEntries] : n \in 0..MaxDiffEntries}}

\* the objects given to diff: None, files, trees before and after digest()
DiffObjs ==
    {NoObj, HashFileObj([name |-> "md5", value |-> h1]),
     HashFileObj([name |-> "md5", value |-> h2])}
    \cup {TreeObj(t) : t \in DiffTrees}
    \cup {TreeObj(digest(t, FALSE, "md5")) : t \in DiffTrees}

\* the cache holds the object h1, good or corrupted
DiffCaches == {h1 :> "ok", h1 :> "corrupt"}

NoDiff == DiffResult(EmptyDict)

InitDiff ==
    /\ InitIdle
    /\ \E old \in DiffObjs, new \in DiffObjs, cache \in DiffCaches :
         calc = [fn |-> "input", old |-> old, new |-> new, cache |-> cache,
                 res |-> NoDiff, res2 |-> NoDiff]

\* diff(old, new, cache)
DoDiff ==
    /\ calc.fn = "input"
    /\ \E order \in KeyOrders(_get_keys(calc.old) \cup _get_keys(calc.new)) :
         calc' = [calc EXCEPT !.fn = "diff",
                              !.res = diff(calc.old, calc.new, calc.cache, order)]
    /\ UNCHANGED odbVars

\* diff(new, old, cache) after diff(old, new, cache)
DoDiffSwapped ==
    /\ calc.fn = "diff"
    /\ \E order \in KeyOrders(_get_keys(calc.new) \cup _get_keys(calc.old)) :
         calc' = [calc EXCEPT !.fn = "diff_swapped",
                              !.res2 = diff(calc.new, calc.old, calc.res.cache, order)]
    /\ UNCHANGED odbVars

NextDiff ==
    \/ DoDiff
    \/ DoDiffSwapped

SpecDiff == InitDiff /\ [][NextDiff]_vars

\* the keys of the changes of one result sequence
KeysOf(changes) == {changes[i].old.key : i \in 1..Len(changes)}

\* how many changes of a result sequence have the key
CountKey(changes, key) == Cardinality({i \in 1..Len(changes) : changes[i].old.key = key})

\* an object given to diff is hash-addressed: None or an object with an oid
HashAddressed(obj) == obj.kind = "None" \/ obj.oid # <<>>

\* the keys of an object: the root, and for a tree the keys of its entries
ObjKeys(obj) ==
    IF obj.kind = "None" THEN {}
    ELSE {ROOT} \cup (IF obj.kind = "tree" THEN DictKeys(obj.dict) ELSE {})

\* the hash an object has under a key: its own hash at the root, the hash
\* of the entry in a tree, none elsewhere
HashAt(obj, key) ==
    IF obj.kind = "None" THEN NoHash
    ELSE IF key = ROOT THEN obj.hash_info
    ELSE IF obj.kind = "tree" /\ key \in DictKeys(obj.dict) THEN DictGet(obj.dict, key).hi
    ELSE NoHash

\* the result sequence the hashes of a key call for
ClassOf(oh, nh) ==
    IF ~Truthy(oh) /\ Truthy(nh) THEN "added"
    ELSE IF Truthy(oh) /\ ~Truthy(nh) THEN "deleted"
    ELSE IF Truthy(oh) /\ Truthy(nh) /\ oh # nh THEN "modified"
    ELSE "unchanged"

SwapChange(c) == Change(c.new, c.old)

\* the changes of a sequence as a bag, the order of iteration set aside
ChangeBag(changes) == [c \in {changes[i] : i \in 1..Len(changes)} |->
                          Cardinality({i \in 1..Len(changes) : changes[i] = c})]

\* C18: diff(new, old) after diff(old, new): the added keys of one are the
\* deleted keys of the other, the modified changes are the same with old
\* and new swapped, and the unchanged keys are the same
C18_DiffSymmetric ==
    calc.fn = "diff_swapped" =>
        /\ KeysOf(calc.res.added) = KeysOf(calc.res2.deleted)
        /\ KeysOf(calc.res.deleted) = KeysOf(calc.res2.added)
        /\ Len(calc.res.added) = Len(calc.res2.deleted)
        /\ Len(calc.res.deleted) = Len(calc.res2.added)
        /\ ChangeBag(calc.res2.modified) =
               ChangeBag([i \in 1..Len(calc.res.modified) |-> SwapChange(calc.res.modified[i])])
        /\ KeysOf(calc.res.unchanged) = KeysOf(calc.res2.unchanged)
        /\ Len(calc.res.unchanged) = Len(calc.res2.unchanged)

\* C18 witness: both directions were computed for a diff with an added, a
\* deleted and a modified change, over a cache with a corrupted object
C18_Witness ==
    /\ calc.fn = "diff_swapped"
    /\ calc.res.added # <<>> /\ calc.res.deleted # <<>> /\ calc.res.modified # <<>>
    /\ calc.cache[h1] = "corrupt"
    /\ h1 \notin DOMAIN calc.res.cache

EmptyAgainstFiles ==
    /\ calc.fn = "diff"
    /\ calc.old.kind = "tree" /\ calc.old.dict = <<>>
    /\ calc.new.kind = "tree" /\ calc.new.oid # <<>>
    /\ calc.new.dict # <<>>
    /\ \A i \in 1..Len(calc.new.dict) : Truthy(calc.new.dict[i].hi)

\* C20 as stated: the diff of an empty Tree against a Tree of n file
\* entries has n added changes and no modified or deleted change
C20_EmptyTreeDiff ==
    EmptyAgainstFiles =>
        /\ Len(calc.res.added) = Len(calc.new.dict)
        /\ calc.res.modified = <<>>
        /\ calc.res.deleted = <<>>

\* C20 amended: the n entries are added, nothing is deleted, and the root
\* key is one more change: added when the empty tree has no oid, modified
\* when it was digested
C20_EmptyTreeDiffRoot ==
    EmptyAgainstFiles =>
        /\ calc.res.deleted = <<>>
        /\ calc.res.unchanged = <<>>
        /\ IF calc.old.oid = <<>>
           THEN /\ KeysOf(calc.res.added) = DictKeys(calc.new.dict) \cup {ROOT}
                /\ Len(calc.res.added) = Len(calc.new.dict) + 1
                /\ calc.res.modified = <<>>
           ELSE /\ KeysOf(calc.res.added) = DictKeys(calc.new.dict)
                /\ Len(calc.res.added) = Len(calc.new.dict)
                /\ KeysOf(calc.res.modified) = {ROOT}
                /\ Len(calc.res.modified) = 1

\* C20 witness: a digested empty tree against a digested tree of two
\* entries gave two added changes and the root as modified
C20_Witness ==
    /\ EmptyAgainstFiles
    /\ calc.old.oid # <<>>
    /\ Len(calc.new.dict) = 2
    /\ Len(calc.res.added) = 2
    /\ Len(calc.res.modified) = 1

\* ================================================================ checkout
\* The workspace is a local directory `path` holding files under the keys
\* of TreeKeys; the target of a checkout is a digested Tree of file entries.

\* no file at a path
NoFile == [content |-> <<>>, link |-> "none", exec |-> FALSE]

\* a workspace file: the hash of what it reads as, how it is linked
\* ("copy", "hardlink" or "symlink" to the cache object of that hash; a
\* reflink is a copy for stat), and its executable bit
WsFile(content, link) == [content |-> content, link |-> link, exec |-> FALSE]

\* Meta.from_info(_localfs_info(path)) of a workspace file
WsMeta(f) ==
    [isexec |-> f.exec,
     is_link |-> f.link = "symlink",
     nlink |-> IF f.link = "hardlink" THEN 2 ELSE 1,
     linked |-> IF f.link \in {"hardlink", "symlink"} THEN f.content ELSE <<>>]

\* the Tree that the walk of the workspace gives: one entry per file
WsTree(ws) ==
    LET ks == CHOOSE s \in SeqsOf({k \in TreeKeys : ws.files[k] # NoFile}) : TRUE
    IN  BuildTree([i \in 1..Len(ks) |->
            [key |-> ks[i], meta |-> WsMeta(ws.files[ks[i]]),
             hi |-> [name |-> "md5", value |-> ws.files[ks[i]].content]]])

\* build(cache, path, fs, "md5", dry_run=True) as _diff calls it: None when
\* fs.info(path) raises FileNotFoundError
build(ws) ==
    IF ~ws.exists THEN NoObj ELSE TreeObj(digest(WsTree(ws), FALSE, "md5"))

\* faulty variant of _needs_relink, for sensitivity runs: only the first
\* configured link type is looked at
_needs_relink_first(types, meta, cache_meta, oid) ==
    LET is_symlink == meta.is_link
        is_hardlink == meta.nlink > 1
        is_copy == ~is_symlink /\ ~is_hardlink
    IN  IF types = <<>> THEN TRUE
        ELSE IF types[1] \in {"copy", "reflink"} /\ is_copy THEN FALSE
        ELSE IF types[1] = "hardlink" /\ is_hardlink /\ cache_meta # NoCacheMeta
        THEN meta.linked # oid
        ELSE IF types[1] = "symlink" /\ is_symlink THEN meta.linked # oid
        ELSE TRUE

\* _needs_relink: the first link type of cache.cache_types that the file
\* matches decides; the inode and the destination of a link are those of
\* the cache object it was made from
RECURSIVE _needs_relink(_, _, _, _)
_needs_relink(types, meta, cache_meta, oid) ==
    LET is_symlink == meta.is_link
        is_hardlink == meta.nlink > 1
        is_copy == ~is_symlink /\ ~is_hardlink
    IN  IF types = <<>> THEN TRUE
        ELSE IF types[1] \in {"copy", "reflink"} /\ is_copy THEN FALSE
        ELSE IF types[1] = "hardlink" /\ is_hardlink /\ cache_meta # NoCacheMeta
        THEN meta.linked # oid
        ELSE IF types[1] = "symlink" /\ is_symlink THEN meta.linked # oid
        ELSE _needs_relink(Tail(types), meta, cache_meta, oid)

\* the entry of a change is a directory: new.oid and new.oid.isdir
NewIsDir(change) == Truthy(change.new.oid) /\ isdir(change.new.oid.value)

\* _determine_files_to_relink on local filesystems: the unchanged changes
\* that are appended to diff.modified
RelinkPicks(unchanged, types) ==
    SelectSeq(unchanged,
        LAMBDA change :
            /\ ~NewIsDir(change)
            /\ \/ change.old.meta = NoMeta
               \/ _needs_relink(types, change.old.meta, change.new.cache_meta,
                                change.new.oid.value))

\* the second half of _diff: with relink the unchanged changes to relink,
\* without it the unchanged files that are not in the cache, are appended
\* to the modified changes of the DiffResult d
AdjustDiff(d, types, relink) ==
    IF relink
    THEN [d EXCEPT !.modified = @ \o RelinkPicks(d.unchanged, types)]
    ELSE [d EXCEPT !.modified = @ \o SelectSeq(d.unchanged,
             LAMBDA change : change.new.cache_meta = NoCacheMeta /\ ~NewIsDir(change))]

\* faulty variant of _diff, for sensitivity runs: the unchanged changes are
\* left where diff put them
_diff_plain(ws, obj, cache, types, relink, order) == diff(build(ws), obj, cache, order)

\* _diff: diff(old, obj, cache) of the built workspace, then the unchanged
\* changes to relink, or those not in the cache, are appended to modified
_diff(ws, obj, cache, types, relink, order) ==
    AdjustDiff(diff(build(ws), obj, cache, order), types, relink)

\* faulty variant of test_links, for sensitivity runs: no link type is
\* tried on a throwaway file
test_links_unprobed(types, fsenv) == types

\* test_links: the configured link types that work on a throwaway file
\* between the cache and the workspace; copy always works
test_links(types, fsenv) == SelectSeq(types, LAMBDA l : l = "copy" \/ l \notin fsenv.unsup)

\* what _link(link, ...) or copy(...) of the cache object v to the path of
\* key does: hardlink, reflink and copy read the object, symlink does not;
\* an unsupported link raises OSError with one of the errnos that
\* _try_links skips
LinkOutcome(fsenv, ctx, l, key, v) ==
    IF l = "symlink"
    THEN IF l \in fsenv.unsup THEN "unsupported"
         ELSE IF ctx.ws.files[key] # NoFile THEN "exists" ELSE "ok"
    ELSE IF v \notin DOMAIN ctx.cache THEN "missing"
    ELSE IF l = "copy" THEN "ok"
    ELSE IF l \in fsenv.unsup \/ (l = "hardlink" /\ key \in fsenv.eperm) THEN "unsupported"
    ELSE IF ctx.ws.files[key] # NoFile THEN "exists"
    ELSE "ok"

\* faulty variant of _try_links, for sensitivity runs: an unsupported link
\* type is not given up for the next one
_try_links_once(links, fsenv, ctx, key, v) ==
    IF links = <<>> THEN [outcome |-> "nolinks", links |-> links, log |-> ctx.log]
    ELSE [outcome |-> IF LinkOutcome(fsenv, ctx, links[1], key, v) = "unsupported"
                      THEN "nolinks" ELSE LinkOutcome(fsenv, ctx, links[1], key, v),
          links |-> links,
          log |-> Append(ctx.log, [key |-> key, link |-> links[1],
                                   outcome |-> LinkOutcome(fsenv, ctx, links[1], key, v)])]

\* _try_links: the first link type of the list is tried; one that is not
\* supported is deleted from the list, which is the list of the caller
RECURSIVE _try_links(_, _, _, _, _)
_try_links(links, fsenv, ctx, key, v) ==
    IF links = <<>> THEN [outcome |-> "nolinks", links |-> links, log |-> ctx.log]
    ELSE LET o == LinkOutcome(fsenv, ctx, links[1], key, v)
             logged == [ctx EXCEPT !.log = Append(@, [key |-> key, link |-> links[1], outcome |-> o])]
         IN  IF o = "unsupported" /\ links[1] # "copy"
             THEN _try_links(Tail(links), fsenv, logged, key, v)
             ELSE [outcome |-> o, links |-> links, log |-> logged.log]

\* transfer(cache.fs, from_path, to_fs, to_path, links=links) of one file:
\* an empty list stands for the default list, and FileExistsError is
\* skipped
fs_transfer(links, fsenv, ctx, key, v) ==
    IF links = <<>>
    THEN [_try_links(<<"reflink", "copy">>, fsenv, ctx, key, v) EXCEPT !.links = <<>>]
    ELSE _try_links(links, fsenv, ctx, key, v)

\* faulty variant of Linked, for sensitivity runs: the list of link types
\* of the Link object is not the one that the transfer shortens
Linked_fresh(made, r, key, v) ==
    IF r.outcome = "missing"
    THEN [made EXCEPT !.log = r.log, !.exc = "CheckoutError", !.at = key]
    ELSE IF r.outcome = "nolinks"
    THEN [made EXCEPT !.log = r.log, !.exc = "LinkError", !.at = key]
    ELSE IF r.outcome = "exists"
    THEN [made EXCEPT !.log = r.log]
    ELSE [made EXCEPT !.log = r.log,
                      !.ws.files[key] =
                          WsFile(v, IF r.links[1] \in {"copy", "reflink"} THEN "copy" ELSE r.links[1])]

\* the end of Link.__call__ for the result r of the transfer
Linked(made, r, key, v) ==
    IF r.outcome = "missing"
    THEN [made EXCEPT !.links = r.links, !.log = r.log, !.exc = "CheckoutError", !.at = key]
    ELSE IF r.outcome = "nolinks"
    THEN [made EXCEPT !.links = r.links, !.log = r.log, !.exc = "LinkError", !.at = key]
    ELSE IF r.outcome = "exists"
    THEN [made EXCEPT !.links = r.links, !.log = r.log]
    ELSE [made EXCEPT !.links = r.links, !.log = r.log,
                      !.ws.files[key] =
                          WsFile(v, IF r.links[1] \in {"copy", "reflink"} THEN "copy" ELSE r.links[1])]

\* Link.__call__: makedirs of the parent, transfer, and the exceptions it
\* raises: CheckoutError for FileNotFoundError, LinkError for other OSError
Link(ctx, fsenv, key, v) ==
    Linked([ctx EXCEPT !.ws.exists = TRUE], fs_transfer(ctx.links, fsenv, ctx, key, v), key, v)

\* faulty variant of _remove, for sensitivity runs: no confirmation
_remove_unasked(ctx, key, in_cache, cfg) ==
    [ctx EXCEPT !.ws.files[key] = NoFile,
                !.removed = IF ctx.ws.files[key] # NoFile THEN @ \cup {key} ELSE @]

\* _remove(path, fs, in_cache, force, prompt); removed notes the paths
\* at which fs.remove found a file
_remove(ctx, key, in_cache, cfg) ==
    IF ~cfg.force /\ ~in_cache /\ ctx.ws.files[key] = NoFile THEN ctx
    ELSE IF ~cfg.force /\ ~in_cache /\ cfg.prompt # "yes"
    THEN [ctx EXCEPT !.exc = "PromptError", !.at = key]
    ELSE [ctx EXCEPT !.ws.files[key] = NoFile,
                     !.removed = IF ctx.ws.files[key] # NoFile THEN @ \cup {key} ELSE @]

\* cache.protect(cache_path) at the end of _relink, after a link that
\* raised nothing
ProtectLinked(linked, v) ==
    IF linked.exc = "none" /\ v \in DOMAIN linked.cache
    THEN [linked EXCEPT !.cache[v] = "protected"]
    ELSE linked

\* _relink after _remove: nothing more when _remove raised
LinkRemoved(removed, fsenv, key, v) ==
    IF removed.exc # "none" THEN removed
    ELSE ProtectLinked(Link(removed, fsenv, key, v), v)

\* faulty variant of _relink, for sensitivity runs: the file is removed
\* and not linked again
_relink_unlinked(ctx, fsenv, key, v, in_cache, cfg) == _remove(ctx, key, in_cache, cfg)

\* _relink: _remove, link, then cache.protect of the cache path
_relink(ctx, fsenv, key, v, in_cache, cfg) ==
    LinkRemoved(_remove(ctx, key, in_cache, cfg), fsenv, key, v)

\* _checkout_file: a file that has a hash in old is relinked, or, with
\* relink, unprotected in place when it is a copy of the same hash and
\* the first cache type is copy; any other file is linked
_checkout_file(ctx, fsenv, change, cfg) ==
    LET key == change.new.key
        v == change.new.oid.value
        in_cache == change.old.cache_meta # NoCacheMeta
        file_is_copy == IF change.old.meta = NoMeta
                        THEN ctx.ws.files[key].link \notin {"symlink", "hardlink"}
                        ELSE ~change.old.meta.is_link /\ change.old.meta.nlink = 1
    IN  IF ~Truthy(change.old.oid) THEN Link(ctx, fsenv, key, v)
        ELSE IF cfg.relink /\ file_is_copy /\ change.new.oid = change.old.oid
                /\ cfg.types[1] = "copy"
        THEN [ctx EXCEPT !.ws.files[key].exec = FALSE]
        ELSE _relink(ctx, fsenv, key, v, in_cache, cfg)

\* the first loop of _checkout: _remove of every deleted change; an
\* exception ends the call
RECURSIVE DeleteLoop(_, _, _)
DeleteLoop(ctx, deleted, cfg) ==
    IF deleted = <<>> \/ ctx.exc # "none" THEN ctx
    ELSE DeleteLoop(_remove(ctx, Head(deleted).old.key,
                            Head(deleted).old.cache_meta # NoCacheMeta, cfg),
                    Tail(deleted), cfg)

\* the except and else clauses around _checkout_file, for what it left
\* in r
AfterCheckoutFile(r, change) ==
    IF r.exc = "CheckoutError"
    THEN [r EXCEPT !.exc = "none", !.failed = Append(@, change.new.key)]
    ELSE IF r.exc # "none" THEN r
    ELSE IF /\ r.ws.files[change.new.key].link = "symlink"
            /\ r.ws.files[change.new.key].content \notin DOMAIN r.cache
    THEN [r EXCEPT !.exc = "FileNotFoundError", !.at = change.new.key]
    ELSE [r EXCEPT !.rows = Append(@, [key |-> change.new.key, hi |-> change.new.oid])]

\* faulty variant of CheckoutStep, for sensitivity runs: CheckoutError is
\* not caught
CheckoutStep_uncaught(ctx, fsenv, change, cfg) ==
    IF NewIsDir(change) THEN [ctx EXCEPT !.ws.exists = TRUE]
    ELSE LET r == _checkout_file(ctx, fsenv, change, cfg)
         IN  IF r.exc # "none" THEN r
             ELSE [r EXCEPT !.rows = Append(@, [key |-> change.new.key, hi |-> change.new.oid])]

\* one turn of the second loop of _checkout: makedirs for a directory,
\* else _checkout_file; CheckoutError is collected, any other exception
\* ends the call, and after a success _localfs_info of the path is taken
\* for the state, which fails on a link to a missing object
CheckoutStep(ctx, fsenv, change, cfg) ==
    IF NewIsDir(change) THEN [ctx EXCEPT !.ws.exists = TRUE]
    ELSE AfterCheckoutFile(_checkout_file(ctx, fsenv, change, cfg), change)

RECURSIVE CheckoutLoop(_, _, _, _)
CheckoutLoop(ctx, fsenv, changes, cfg) ==
    IF changes = <<>> \/ ctx.exc # "none" THEN ctx
    ELSE CheckoutLoop(CheckoutStep(ctx, fsenv, Head(changes), cfg), fsenv, Tail(changes), cfg)

\* bool(DiffResult)
DiffResult_bool(d) == d.added # <<>> \/ d.modified # <<>> \/ d.deleted # <<>>

\* the end of _checkout after the loops left c: state.save_many of the
\* rows when a State is given, then CheckoutError of the collected paths
SaveAndRaise(c, cfg) ==
    IF c.exc # "none" THEN c
    ELSE [c EXCEPT !.saved = IF cfg.state THEN c.rows ELSE @,
                   !.exc = IF c.failed # <<>> THEN "CheckoutError" ELSE @]

\* faulty variant of _checkout, for sensitivity runs: the rows are not
\* saved
_checkout_unsaved(d, ctx, fsenv, cfg) ==
    IF ~DiffResult_bool(d) THEN ctx
    ELSE IF test_links(cfg.types, fsenv) = <<>> THEN [ctx EXCEPT !.exc = "LinkError", !.at = ROOT]
    ELSE SaveAndRaise(
             CheckoutLoop(DeleteLoop([ctx EXCEPT !.links = test_links(cfg.types, fsenv)],
                                     d.deleted, cfg),
                          fsenv, d.added \o d.modified, cfg),
             [cfg EXCEPT !.state = FALSE])

\* _checkout: nothing for a diff without changes; LinkError when no link
\* type works; the two loops; state.save_many of the rows; CheckoutError
\* of the collected paths
_checkout(d, ctx, fsenv, cfg) ==
    IF ~DiffResult_bool(d) THEN ctx
    ELSE IF test_links(cfg.types, fsenv) = <<>> THEN [ctx EXCEPT !.exc = "LinkError", !.at = ROOT]
    ELSE SaveAndRaise(
             CheckoutLoop(DeleteLoop([ctx EXCEPT !.links = test_links(cfg.types, fsenv)],
                                     d.deleted, cfg),
                          fsenv, d.added \o d.modified, cfg),
             cfg)

\* what checkout leaves and raises, from the DiffResult d and from what
\* _checkout left in r
CheckoutResult(d, r, cfg) ==
    [diff |-> d, ws |-> r.ws, cache |-> r.cache, links |-> r.links, log |-> r.log,
     failed |-> r.failed, rows |-> r.rows, saved |-> r.saved, removed |-> r.removed,
     exc |-> r.exc, at |-> r.at,
     save_link |-> r.exc \in {"none", "CheckoutError"}
                   /\ (DiffResult_bool(d) \/ cfg.relink) /\ cfg.state]

\* checkout after _diff: _checkout of the DiffResult d
CheckoutDiff(ws, d, cfg, fsenv) ==
    CheckoutResult(d,
        _checkout(d, [ws |-> ws, cache |-> d.cache, links |-> <<>>, log |-> <<>>,
                      failed |-> <<>>, rows |-> <<>>, saved |-> <<>>, removed |-> {},
                      exc |-> "none", at |-> ROOT],
                  fsenv, cfg),
        cfg)

\* checkout(path, fs, obj, cache, force, relink, state, prompt) of a tree
\* that has an oid: what it leaves and raises
checkout(ws, obj, cache, cfg, fsenv, order) ==
    CheckoutDiff(ws, _diff(ws, obj, cache, cfg.types, cfg.relink, order), cfg, fsenv)

\* the workspaces: no directory, or a directory with a copy of h1 or
\* nothing under ("a", "b"), and a copy of h1 or h2, a hardlink to the
\* object h1 or nothing under ("b",)
CheckoutWorkspaces ==
    {[exists |-> FALSE, files |-> [k \in TreeKeys |-> NoFile]]}
    \cup {[exists |-> TRUE, files |-> f] :
            f \in {g \in [TreeKeys -> {NoFile, WsFile(h1, "copy"), WsFile(h2, "copy"),
                                       WsFile(h1, "hardlink")}] :
                      g[<< <<"a">>, <<"b">> >>] \in {NoFile, WsFile(h1, "copy")}}}

\* the targets: digested trees of file entries, with h1 under ("a", "b")
\* if there is such an entry; the entries of h2 are executable
CheckoutTargets ==
    {TreeObj(digest(BuildTree(s), FALSE, "md5")) :
        s \in {t \in UNION {[1..n -> {[key |-> k, meta |-> [isexec |-> v = h2],
                                       hi |-> [name |-> "md5", value |-> v]] :
                                          k \in TreeKeys, v \in {h1, h2}}] : n \in 0..2} :
                 /\ \A i, j \in 1..Len(t) : i < j => StrLE(JoinComps(t[i].key), JoinComps(t[j].key))
                                                    /\ t[i].key # t[j].key
                 /\ \A i \in 1..Len(t) : t[i].key = << <<"a">>, <<"b">> >> => t[i].hi.value = h1}}

\* the caches: nothing, the object h1, or the objects h1 and h2
CheckoutCaches == {[v \in S |-> "ok"] : S \in {{}, {h1}, {h1, h2}}}

\* cache.cache_types, force, prompt, relink, and whether a State is given
\* (no State only with force and without relink)
CheckoutConfigs ==
    {[types |-> t, force |-> c.force, prompt |-> c.prompt, relink |-> r, state |-> TRUE] :
        t \in {<<"copy">>, <<"hardlink", "copy">>, <<"hardlink">>, <<"symlink", "copy">>},
        c \in {[force |-> FALSE, prompt |-> "None"], [force |-> FALSE, prompt |-> "yes"],
               [force |-> TRUE, prompt |-> "None"]},
        r \in BOOLEAN}
    \cup {[types |-> t, force |-> TRUE, prompt |-> "None", relink |-> FALSE, state |-> FALSE] :
            t \in {<<"copy">>, <<"hardlink", "copy">>, <<"hardlink">>, <<"symlink", "copy">>}}

\* the filesystems: every link type works; no link type but copy works;
\* hardlinks work but not on the file of the key ("b",)
LinkEnvs ==
    {[unsup |-> {}, eperm |-> {}],
     [unsup |-> {"reflink", "hardlink", "symlink"}, eperm |-> {}],
     [unsup |-> {}, eperm |-> {<< <<"b">> >>}]}

\* a filesystem on which hardlinks fail for one file is only taken with
\* hardlink among the cache types
EnvFor(cfg) ==
    {e \in LinkEnvs : e.eperm # {} => "hardlink" \in {cfg.types[i] : i \in 1..Len(cfg.types)}}

NoCheckout == [exc |-> "not called"]

InitCheckout ==
    /\ InitIdle
    /\ \E ws \in CheckoutWorkspaces, obj \in CheckoutTargets, cache \in CheckoutCaches,
          cfg \in CheckoutConfigs :
       \E fsenv \in EnvFor(cfg) :
         calc = [fn |-> "input", ws |-> ws, obj |-> obj, cache |-> cache, cfg |-> cfg,
                 fsenv |-> fsenv, res |-> NoCheckout, res2 |-> NoCheckout]

\* checkout(path, fs, obj, cache, ...)
DoCheckout ==
    /\ calc.fn = "input"
    /\ \E order \in SeqsOf(_get_keys(build(calc.ws)) \cup _get_keys(calc.obj)) :
         calc' = [calc EXCEPT !.fn = "checkout",
                              !.res = checkout(calc.ws, calc.obj, calc.cache, calc.cfg,
                                               calc.fsenv, order)]
    /\ UNCHANGED odbVars

\* the same checkout again, after one that returned
DoCheckoutAgain ==
    /\ calc.fn = "checkout"
    /\ calc.res.exc = "none"
    /\ \E order \in SeqsOf(_get_keys(build(calc.res.ws)) \cup _get_keys(calc.obj)) :
         calc' = [calc EXCEPT !.fn = "checkout_again",
                              !.res2 = checkout(calc.res.ws, calc.obj, calc.res.cache,
                                                calc.cfg, calc.fsenv, order)]
    /\ UNCHANGED odbVars

NextCheckout ==
    \/ DoCheckout
    \/ DoCheckoutAgain

SpecCheckout == InitCheckout /\ [][NextCheckout]_vars

\* the changes of a sequence, as a set
ChangesOf(changes) == {changes[i] : i \in 1..Len(changes)}

\* the typ that the hashes of a change call for
TypOf(change) ==
    IF ~Truthy(change.old.oid) /\ ~Truthy(change.new.oid) THEN "unchanged"
    ELSE IF ~Truthy(change.new.oid) THEN "delete"
    ELSE IF ~Truthy(change.old.oid) THEN "add"
    ELSE IF change.old.key # change.new.key \/ change.old.oid # change.new.oid THEN "modify"
    ELSE "unchanged"

\* every change of the result has the typ its entries call for
TypDetermined(d) ==
    \A change \in ChangesOf(d.added) \cup ChangesOf(d.modified)
                  \cup ChangesOf(d.deleted) \cup ChangesOf(d.unchanged) :
        change.typ = TypOf(change)

\* C21 as stated: in the DiffResult of a checkout every change has the typ
\* its entries call for, every sequence holds changes of its own type
\* only, and no change is in two sequences
C21_TypMatchesSequence ==
    calc.fn = "checkout" =>
        LET d == calc.res.diff
        IN  /\ TypDetermined(d)
            /\ \A change \in ChangesOf(d.added) : change.typ = "add"
            /\ \A change \in ChangesOf(d.modified) : change.typ = "modify"
            /\ \A change \in ChangesOf(d.deleted) : change.typ = "delete"
            /\ \A change \in ChangesOf(d.unchanged) : change.typ = "unchanged"
            /\ ChangesOf(d.modified) \cap ChangesOf(d.unchanged) = {}

\* the unchanged changes that checkout treats as modified
Adjusted(d, cfg) ==
    {change \in ChangesOf(d.unchanged) :
        /\ ~NewIsDir(change)
        /\ IF cfg.relink
           THEN _needs_relink(cfg.types, change.old.meta, change.new.cache_meta,
                              change.new.oid.value)
           ELSE change.new.cache_meta = NoCacheMeta}

\* C21 amended: every change has the typ its entries call for; added,
\* deleted and unchanged hold changes of their own type; modified holds
\* the changes of typ modify and, also listed in unchanged, the unchanged
\* changes that checkout treats as modified
C21_TypMatchesButAdjusted ==
    calc.fn = "checkout" =>
        LET d == calc.res.diff
        IN  /\ TypDetermined(d)
            /\ \A change \in ChangesOf(d.added) : change.typ = "add"
            /\ \A change \in ChangesOf(d.deleted) : change.typ = "delete"
            /\ \A change \in ChangesOf(d.unchanged) : change.typ = "unchanged"
            /\ \A change \in ChangesOf(d.modified) : change.typ \in {"modify", "unchanged"}
            /\ ChangesOf(d.modified) \cap ChangesOf(d.unchanged) = Adjusted(d, calc.cfg)
            /\ {change \in ChangesOf(d.modified) : change.typ = "unchanged"} = Adjusted(d, calc.cfg)
            /\ \A key \in KeysOf(d.added) \cup KeysOf(d.modified) \cup KeysOf(d.deleted)
                          \cup KeysOf(d.unchanged) :
                   CountKey(d.added, key) + CountKey(d.modified, key) + CountKey(d.deleted, key)
                   + CountKey(d.unchanged, key)
                   = IF \E change \in Adjusted(d, calc.cfg) : change.old.key = key THEN 2 ELSE 1

\* C21 witness: a checkout without relink whose diff lists one unchanged
\* file, not in the cache, in modified as well, next to a modified one
C21_Witness ==
    /\ calc.fn = "checkout"
    /\ ~calc.cfg.relink
    /\ \E i, j \in 1..Len(calc.res.diff.modified) :
          /\ calc.res.diff.modified[i].typ = "modify"
          /\ calc.res.diff.modified[i].old.key # ROOT
          /\ calc.res.diff.modified[j].typ = "unchanged"
          /\ calc.res.diff.modified[j] \in ChangesOf(calc.res.diff.unchanged)

\* cache.check of the hash succeeds on the cache the checkout starts with
VerifiedInCache(cache, v) == v \in DOMAIN cache /\ cache[v] # "corrupt"

\* C22: a workspace file that checkout removed or replaced had its content
\* verified in the cache, unless force was set or the prompt said yes;
\* where a confirmation is needed and not given, PromptError is raised
\* and the file stays
C22_NoSilentRemoval ==
    calc.fn = "checkout" =>
        /\ \A key \in TreeKeys :
              (calc.ws.files[key] # NoFile
               /\ (key \in calc.res.removed \/ calc.res.ws.files[key] # calc.ws.files[key])) =>
                  \/ calc.cfg.force
                  \/ calc.cfg.prompt = "yes"
                  \/ VerifiedInCache(calc.cache, calc.ws.files[key].content)
        /\ calc.res.exc = "PromptError" =>
              /\ calc.res.ws.files[calc.res.at] = calc.ws.files[calc.res.at]
              /\ calc.res.at \notin calc.res.removed
        /\ (/\ ~calc.cfg.force /\ calc.cfg.prompt # "yes"
            /\ test_links(calc.cfg.types, calc.fsenv) # <<>>
            /\ \E change \in ChangesOf(calc.res.diff.deleted) :
                  change.old.cache_meta = NoCacheMeta) =>
              calc.res.exc = "PromptError"

\* C22 witness: a file not in the cache was to be deleted without force
\* and without prompt, after a file that is in the cache was removed;
\* PromptError was raised
C22_Witness ==
    /\ calc.fn = "checkout"
    /\ ~calc.cfg.force /\ calc.cfg.prompt = "None"
    /\ calc.res.exc = "PromptError"
    /\ calc.ws.files[calc.res.at] # NoFile
    /\ calc.res.removed # {}

\* the keys of the file entries that a checkout has to materialize
FileKeys(d) ==
    {change.new.key : change \in {c \in ChangesOf(d.added \o d.modified) : ~NewIsDir(c)}}

\* the keys of the file entries that _checkout_file was done with:
\* collected as failed, or noted for the state
Processed(res) ==
    {res.failed[i] : i \in 1..Len(res.failed)} \cup {res.rows[i].key : i \in 1..Len(res.rows)}

AttemptsFor(log, key) == SelectSeq(log, LAMBDA a : a.key = key)

\* the linkage that a link type leaves on a local file
LinkageOf(l) == IF l \in {"copy", "reflink"} THEN "copy" ELSE l

\* C24: a link type is attempted for a file only after every link type
\* configured before it was found unsupported, by test_links or by an
\* earlier attempt; the attempts for one file end with the first that is
\* not unsupported, and one that succeeds leaves the file with that
\* linkage; when copy is configured, every file for which a link was
\* attempted and whose object is in the cache is materialized
C24_LinksInOrder ==
    calc.fn = "checkout" =>
        LET res == calc.res
            types == calc.cfg.types
        IN  /\ \A i \in 1..Len(res.log) : \A p, q \in 1..Len(types) :
                  (types[q] = res.log[i].link /\ p < q) =>
                      \/ types[p] \notin ChangesOf(test_links(types, calc.fsenv))
                      \/ \E j \in 1..(i - 1) : /\ res.log[j].link = types[p]
                                               /\ res.log[j].outcome = "unsupported"
            /\ \A key \in TreeKeys :
                  LET att == AttemptsFor(res.log, key)
                  IN  att # <<>> =>
                          /\ \A n \in 1..(Len(att) - 1) : att[n].outcome = "unsupported"
                          /\ att[Len(att)].outcome = "ok" =>
                                /\ res.ws.files[key].link = LinkageOf(att[Len(att)].link)
                                /\ res.ws.files[key].content = HashAt(calc.obj, key).value
                          /\ ("copy" \in ChangesOf(types) /\ HashAt(calc.obj, key).value \in DOMAIN res.diff.cache) =>
                                /\ att[Len(att)].outcome = "ok"
                                /\ res.ws.files[key].content = HashAt(calc.obj, key).value

\* C24 witness: hardlink was found unsupported for one file, which was
\* then copied, and the file after it was copied without another attempt
\* to hardlink it
C24_Witness ==
    /\ calc.fn = "checkout"
    /\ calc.cfg.types = <<"hardlink", "copy">>
    /\ \E i, j, k \in 1..Len(calc.res.log) :
          /\ i < j /\ j < k
          /\ calc.res.log[i].link = "hardlink" /\ calc.res.log[i].outcome = "unsupported"
          /\ calc.res.log[j].key = calc.res.log[i].key
          /\ calc.res.log[j].link = "copy" /\ calc.res.log[j].outcome = "ok"
          /\ calc.res.log[k].key # calc.res.log[i].key
          /\ AttemptsFor(calc.res.log, calc.res.log[k].key) =
                << [key |-> calc.res.log[k].key, link |-> "copy", outcome |-> "ok"] >>
          /\ calc.res.ws.files[calc.res.log[k].key].link = "copy"

\* the unchanged file entries of a diff, by key
UnchangedFiles(d) == {c \in ChangesOf(d.unchanged) : ~NewIsDir(c)}

\* the linkage of a file is that of one of the configured link types; a
\* hardlink is only recognised against the object in the cache
LinkageConfigured(f, types, in_cache) ==
    \E i \in 1..Len(types) :
        \/ LinkageOf(types[i]) = "copy" /\ f.link = "copy"
        \/ types[i] = "hardlink" /\ f.link = "hardlink" /\ in_cache
        \/ types[i] = "symlink" /\ f.link = "symlink"

\* C25 as stated, for one checkout of ws with the result res: an unchanged
\* file with its object in the cache whose linkage is that of the first configured link type is left
\* in place, any other is among the modified changes to be deleted and
\* re-materialized
RelinkToPreferred(ws, res) ==
    \A c \in {u \in UnchangedFiles(res.diff) : u.new.oid.value \in DOMAIN res.diff.cache} :
        IF ws.files[c.new.key].link = LinkageOf(calc.cfg.types[1])
        THEN /\ c \notin ChangesOf(res.diff.modified)
             /\ res.ws.files[c.new.key] = ws.files[c.new.key]
        ELSE c \in ChangesOf(res.diff.modified)

C25_RelinkToPreferred ==
    (calc.fn \in {"checkout", "checkout_again"} /\ calc.cfg.relink) =>
        /\ RelinkToPreferred(calc.ws, calc.res)
        /\ calc.fn = "checkout_again" => RelinkToPreferred(calc.res.ws, calc.res2)

\* C25 amended, for one checkout of ws with the result res: an unchanged
\* file whose linkage is that of any configured link type is left in
\* place; any other is among the modified changes, and where the call got
\* through with it, it was removed and linked anew from the cache
RelinkUnlessConfigured(ws, res) ==
    \A c \in UnchangedFiles(res.diff) :
        LET key == c.new.key
            att == AttemptsFor(res.log, key)
        IN  IF LinkageConfigured(ws.files[key], calc.cfg.types,
                                 c.new.oid.value \in DOMAIN res.diff.cache)
            THEN /\ c \notin ChangesOf(res.diff.modified)
                 /\ res.ws.files[key] = ws.files[key]
                 /\ key \notin res.removed
                 /\ att = <<>>
            ELSE /\ c \in ChangesOf(res.diff.modified)
                 /\ (\E i \in 1..Len(res.rows) : res.rows[i].key = key) =>
                       /\ key \in res.removed
                       /\ att # <<>>
                       /\ att[Len(att)].outcome = "ok"
                       /\ res.ws.files[key] = WsFile(c.new.oid.value, LinkageOf(att[Len(att)].link))

C25_RelinkUnlessConfigured ==
    (calc.fn \in {"checkout", "checkout_again"} /\ calc.cfg.relink) =>
        /\ RelinkUnlessConfigured(calc.ws, calc.res)
        /\ calc.fn = "checkout_again" => RelinkUnlessConfigured(calc.res.ws, calc.res2)

\* C25 witness: with the cache types hardlink, copy one unchanged copy
\* was left in place, and with the cache type hardlink alone one was
\* replaced by a hardlink
C25_Witness ==
    /\ calc.fn = "checkout"
    /\ calc.cfg.relink
    /\ \E c \in UnchangedFiles(calc.res.diff) :
          /\ calc.ws.files[c.new.key].link = "copy"
          /\ \/ /\ calc.cfg.types = <<"hardlink", "copy">>
                /\ calc.res.ws.files[c.new.key].link = "copy"
                /\ DiffResult_bool(calc.res.diff)
                /\ calc.res.exc = "none"
             \/ /\ calc.cfg.types = <<"hardlink">>
                /\ calc.res.ws.files[c.new.key].link = "hardlink"

\* C26: after a checkout every file it materialized whose entry in the
\* target has isexec set is executable in the workspace
C26_ExecRestored ==
    calc.fn = "checkout" =>
        \A i \in 1..Len(calc.res.rows) :
            LET key == calc.res.rows[i].key
            IN  DictGet(calc.obj.dict, key).meta.isexec => calc.res.ws.files[key].exec

\* the files that a link type materialized during the call
Materialized(res) ==
    {key \in TreeKeys : LET att == AttemptsFor(res.log, key)
                        IN  att # <<>> /\ att[Len(att)].outcome = "ok"}

AllInCache(obj, cache) ==
    \A key \in DictKeys(obj.dict) : DictGet(obj.dict, key).hi.value \in DOMAIN cache

UnchangedMissing(d) ==
    {c \in ChangesOf(d.unchanged) : c.new.key # ROOT /\ c.new.oid.value \notin DOMAIN d.cache}

SizeOf(content) == IF content = h1 THEN <<"1">> ELSE <<"3">>

\* meta.size or 0
SizeOr0(meta) ==
    IF meta.size = <<>> THEN 0 ELSE IF meta.size = <<"1">> THEN 1 ELSE 3

\* Meta of a directory: size (NoSize is None), nfiles, isdir
NoSize == 0 - 1
DirMeta(size, nfiles, is_dir) == [size |-> size, nfiles |-> nfiles, isdir |-> is_dir]

\* _build_files of the files met by _walk_files: (meta, hash_info) of
\* each file, added to the tree in the order of the walk
WalkTree(ws) ==
    LET ks == CHOOSE s \in SeqsOf({k \in TreeKeys : ws.files[k] # NoFile}) : TRUE
    IN  BuildTree([i \in 1..Len(ks) |->
            [key |-> ks[i],
             meta |-> [size |-> SizeOf(ws.files[ks[i]].content), md5 |-> <<>>],
             hi |-> [name |-> "md5", value |-> ws.files[ks[i]].content]]])

\* size += meta.size or 0 over the entries
RECURSIVE SumMetaSizes(_)
SumMetaSizes(d) == IF d = <<>> THEN 0 ELSE SizeOr0(Head(d).meta) + SumMetaSizes(Tail(d))

\* _build_tree(path, fs, fs_info, "md5", odb): with a digest in fs_info
\* and the tree of that digest in the odb the tree is loaded; otherwise
\* the files are walked, the tree is digested and added to the odb
_build_tree(ws, value, trees) ==
    LET loaded == load(trees, "md5", value, "md5")
        t == digest(WalkTree(ws), FALSE, "md5")
    IN  IF value # <<>> /\ loaded.ok = "tree"
        THEN [how |-> "load", meta |-> DirMeta(NoSize, Len(loaded.dict), FALSE),
              dict |-> loaded.dict, oid |-> loaded.oid, trees |-> trees]
        ELSE IF value # <<>> /\ loaded.ok # "FileNotFoundError"
        THEN [how |-> loaded.ok, meta |-> DirMeta(NoSize, 0, FALSE),
              dict |-> <<>>, oid |-> <<>>, trees |-> trees]
        ELSE [how |-> "walk", meta |-> DirMeta(SumMetaSizes(t.dict), Len(t.dict), TRUE),
              dict |-> t.dict, oid |-> t.oid, trees |-> add_update_tree(trees, t)]

\* the directories: a file of the content h1 or h2, or none, under each key
BuildDirs ==
    {[exists |-> TRUE, files |-> f] :
        f \in [TreeKeys -> {NoFile, WsFile(h1, "copy"), WsFile(h2, "copy")}]}

\* the odbs: empty, or holding the tree of one of the directories
BuildStores ==
    {EmptyDict} \cup {add_update_tree(EmptyDict, digest(WalkTree(d), FALSE, "md5")) : d \in BuildDirs}

\* fs_info.get("md5"): nothing, or the digest of one of the directories
BuildValues == {<<>>} \cup {digest(WalkTree(d), FALSE, "md5").oid : d \in BuildDirs}

NoBuilt == [how |-> "not called"]

InitBuild ==
    /\ InitIdle
    /\ \E ws \in BuildDirs, trees \in BuildStores, value \in BuildValues :
         calc = [fn |-> "input", ws |-> ws, trees |-> trees, value |-> value,
                 res |-> NoBuilt, res2 |-> NoBuilt]

\* _build_tree(path, fs, fs_info, "md5", odb=odb)
DoBuildTree ==
    /\ calc.fn = "input"
    /\ calc' = [calc EXCEPT !.fn = "_build_tree",
                            !.res = _build_tree(calc.ws, calc.value, calc.trees)]
    /\ UNCHANGED odbVars

\* _build_tree of the same directory after a walk, on a filesystem whose
\* info gives the digest that the walk found
DoBuildTreeKnown ==
    /\ calc.fn = "_build_tree"
    /\ calc.res.how = "walk"
    /\ calc' = [calc EXCEPT !.fn = "_build_tree_known",
                            !.res2 = _build_tree(calc.ws, calc.res.oid, calc.res.trees)]
    /\ UNCHANGED odbVars

NextBuild ==
    \/ DoBuildTree
    \/ DoBuildTreeKnown

SpecBuild == InitBuild /\ [][NextBuild]_vars

\* two results of _build_tree are the same: the keys of the tree, the
\* hash and the meta under each key, the oid, and the Meta of the
\* directory
SameBuilt(a, b) ==
    /\ a.oid = b.oid
    /\ DictKeys(a.dict) = DictKeys(b.dict)
    /\ \A key \in DictKeys(a.dict) \cap DictKeys(b.dict) :
          /\ DictGet(a.dict, key).hi = DictGet(b.dict, key).hi
          /\ DictGet(a.dict, key).meta = DictGet(b.dict, key).meta
    /\ a.meta = b.meta

\* C30: when the digest of the directory is known and its tree is in the
\* odb, _build_tree returns what the walk of the unchanged directory
\* returns: the same entries, oid and Meta of the directory
C30_ShortcutSameAsWalk ==
    /\ (calc.fn = "_build_tree" /\ calc.res.how = "load"
        /\ calc.value = digest(WalkTree(calc.ws), FALSE, "md5").oid) =>
            SameBuilt(calc.res, _build_tree(calc.ws, <<>>, calc.trees))
    /\ calc.fn = "_build_tree_known" =>
            /\ calc.res2.how = "load"
            /\ SameBuilt(calc.res2, calc.res)

\* C36: in one checkout no link type that the filesystem does not
\* support is attempted for a file after test_links, and a link type
\* that was found unsupported in the attempt for one file is not
\* attempted again, for that file or for a later one
C36_UnsupportedNotRetried ==
    calc.fn \in {"checkout", "checkout_again"} =>
        LET log == IF calc.fn = "checkout" THEN calc.res.log ELSE calc.res2.log
        IN  /\ \A i \in 1..Len(log) :
                  log[i].link = "copy" \/ log[i].link \notin calc.fsenv.unsup
            /\ \A i, j \in 1..Len(log) :
                  (i < j /\ log[i].outcome = "unsupported") => log[j].link # log[i].link

\* C36 witness: hardlink failed for the first file of two, and both
\* files were copied, the second one without an attempt to hardlink it
C36_Witness ==
    /\ calc.fn = "checkout"
    /\ calc.fsenv.eperm # {}
    /\ Len(calc.res.log) = 3
    /\ calc.res.log[1].link = "hardlink" /\ calc.res.log[1].outcome = "unsupported"
    /\ calc.res.log[3].key # calc.res.log[1].key
    /\ calc.res.log[3].link = "copy"
    /\ calc.res.links = <<"copy">>
    /\ calc.res.exc = "none"

\* none of the configured link types works between the cache and the
\* workspace
NoLinkWorks(cfg, fsenv) ==
    \A i \in 1..Len(cfg.types) : cfg.types[i] # "copy" /\ cfg.types[i] \in fsenv.unsup

\* C38: when none of the configured link types works, a checkout with a
\* change to make raises LinkError and leaves the workspace as it was:
\* nothing removed, nothing linked, no directory made
C38_LinkErrorBeforeChange ==
    (calc.fn = "checkout" /\ NoLinkWorks(calc.cfg, calc.fsenv)
     /\ DiffResult_bool(calc.res.diff)) =>
        /\ calc.res.exc = "LinkError"
        /\ calc.res.ws = calc.ws
        /\ calc.res.removed = {}
        /\ calc.res.log = <<>>
        /\ calc.res.saved = <<>>

\* C38 witness: a checkout that had a file to delete and a file to link
\* raised LinkError with the workspace as it was
C38_Witness ==
    /\ calc.fn = "checkout"
    /\ NoLinkWorks(calc.cfg, calc.fsenv)
    /\ calc.cfg.force
    /\ calc.res.diff.deleted # <<>>
    /\ calc.res.diff.added # <<>>
    /\ calc.res.exc = "LinkError"
    /\ calc.res.ws = calc.ws

\* ------------------------------------------------- transfer: result sets
\* C37: when transfer returns, every oid of its transferred set is present in
\* dest, and no oid is in both the transferred and the failed set
C37_TransferredInDest ==
    (TransferOver /\ last.exc = "none") =>
        /\ last.transferred \subseteq Present(store)
        /\ last.transferred \cap last.failed = {}

\* ------------------------------------------------------------- gc: sweep
\* the stored oids that a gc call leaves unused: those not named by a used
\* HashInfo of the ODB's hash name
GcUnused(st, used) == {o \in Present(st) : [name |-> odb_hash_name, value |-> o] \notin used}

Radix == 2
Pow(b, n) == IF n = 0 THEN 1 ELSE IF n = 1 THEN b ELSE IF n = 2 THEN b * b ELSE b * b * b

\* the oids stored in the remote and the oids asked for
StoredSets == SUBSET {<<0, 0, 0>>, <<0, 0, 1>>, <<0, 1, 0>>, <<1, 0, 0>>, <<1, 1, 1>>}
QuerySets == SUBSET {<<0, 0, 0>>, <<0, 0, 1>>, <<0, 1, 0>>, <<1, 1, 0>>, <<1, 1, 1>>}

\* class attributes of the filesystem read by ObjectDB (fs/base.py 70-74)
FsTraits ==
    {[CAN_TRAVERSE |-> FALSE, TRAVERSE_PREFIX_LEN |-> 2, TRAVERSE_THRESHOLD_SIZE |-> 4,
      LIST_OBJECT_PAGE_SIZE |-> 1, TRAVERSE_WEIGHT_MULTIPLIER |-> 1, jobs |-> 1]}
    \cup [CAN_TRAVERSE : {TRUE}, TRAVERSE_PREFIX_LEN : {2, 3}, TRAVERSE_THRESHOLD_SIZE : {1, 4},
          LIST_OBJECT_PAGE_SIZE : {1, 2}, TRAVERSE_WEIGHT_MULTIPLIER : {1, 2}, jobs : {1, 4}]

\* str.startswith
StartsWith(oid, prefix) == Len(prefix) <= Len(oid) /\ SubSeq(oid, 1, Len(prefix)) = prefix

\* _list_oids(prefixes): the stored oids under one of the prefixes, all of
\* them for prefixes=None
_list_oids(stored, prefixes) == {o \in stored : \E p \in prefixes : StartsWith(o, p)}

\* list_oids_exists: fs.exists on the path of each oid
list_oids_exists(stored, oids) == {o \in oids : o \in stored}

\* i > limit, for limit = _max_estimation_size(oids) / total_prefixes and
\* _max_estimation_size = max(THRESHOLD, len(oids) / MULTIPLIER * PAGE_SIZE)
OverLimit(i, fs, n) ==
    /\ i * Pow(Radix, fs.TRAVERSE_PREFIX_LEN) > fs.TRAVERSE_THRESHOLD_SIZE
    /\ i * Pow(Radix, fs.TRAVERSE_PREFIX_LEN) * fs.TRAVERSE_WEIGHT_MULTIPLIER > n * fs.LIST_OBJECT_PAGE_SIZE

\* _oids_with_limit over a listing: the oids up to and including the first
\* whose count is over the limit
_oids_with_limit(listing, fs, n) ==
    {listing[i] : i \in {k \in 1..Len(listing) : \A j \in 1..(k - 1) : ~OverLimit(j, fs, n)}}

\* the prefix listed by _estimate_remote_size: "0" * TRAVERSE_PREFIX_LEN
ZeroPrefix(fs) == [i \in 1..fs.TRAVERSE_PREFIX_LEN |-> 0]

\* _estimate_remote_size(oids): the oids listed, with a limit when oids are
\* given; `listing` is the order in which the filesystem lists the prefix
EstimateOids(listing, fs, oids) ==
    IF oids # {} THEN _oids_with_limit(listing, fs, Cardinality(oids)) ELSE Range(listing)

\* _estimate_remote_size: remote_size
EstimateSize(fs, remote_oids) ==
    IF remote_oids # {} THEN Pow(Radix, fs.TRAVERSE_PREFIX_LEN) * Cardinality(remote_oids)
    ELSE Pow(Radix, fs.TRAVERSE_PREFIX_LEN)

\* _list_oids_traverse: the prefixes of two digits but "00", and for longer
\* prefixes those of "00" followed by digits not all zero
traverse_prefixes(fs) ==
    {p \in [1..2 -> 0..(Radix - 1)] : p # <<0, 0>>}
    \cup {p \in [1..fs.TRAVERSE_PREFIX_LEN -> 0..(Radix - 1)] :
            fs.TRAVERSE_PREFIX_LEN > 2 /\ p[1] = 0 /\ p[2] = 0 /\ p # ZeroPrefix(fs)}

\* _list_oids_traverse(remote_size, remote_oids): a full listing for a small
\* remote, else the oids of the estimate and the listing of the other prefixes
_list_oids_traverse(stored, fs, remote_size, remote_oids) ==
    IF remote_size * fs.jobs < Pow(Radix, 2) * fs.LIST_OBJECT_PAGE_SIZE
    THEN [how |-> "list_all", oids |-> stored]
    ELSE [how |-> "traverse", oids |-> remote_oids \cup _list_oids(stored, traverse_prefixes(fs))]

\* oids_exist lines 429-433: traverse_weight, compared with len(oids) as
\* len(oids) < traverse_weight
UnderWeight(fs, n, remote_size) ==
    IF remote_size > fs.TRAVERSE_THRESHOLD_SIZE
    THEN n * fs.LIST_OBJECT_PAGE_SIZE < remote_size * fs.TRAVERSE_WEIGHT_MULTIPLIER
    ELSE n * fs.LIST_OBJECT_PAGE_SIZE < remote_size

\* faulty variant of always_traverse, for sensitivity runs: the filesystem sets _ALWAYS_TRAVERSE
always_traverse_set == TRUE

\* getattr(self.fs, "_ALWAYS_TRAVERSE", False): no filesystem class sets it
always_traverse == FALSE

\* oids_exist lines 425-454, after the estimate gave remote_oids
AfterEstimate(stored, oids, fs, remote_oids, listed) ==
    IF UnderWeight(fs, Cardinality(oids), EstimateSize(fs, remote_oids)) /\ ~always_traverse
    THEN [how |-> "estimate_exists", cut |-> remote_oids # listed,
          ret |-> (oids \cap remote_oids) \cup list_oids_exists(stored, oids \ remote_oids)]
    ELSE [how |-> _list_oids_traverse(stored, fs, EstimateSize(fs, remote_oids), remote_oids).how,
          cut |-> remote_oids # listed,
          ret |-> oids \cap _list_oids_traverse(stored, fs, EstimateSize(fs, remote_oids), remote_oids).oids]

\* ObjectDB.oids_exist(oids); `listing` is the order in which the filesystem
\* lists the oids under the estimate's prefix
ObjectDB_oids_exist(stored, oids, fs, listing) ==
    IF (Cardinality(oids) = 1 \/ ~fs.CAN_TRAVERSE) /\ ~always_traverse
    THEN [how |-> "exists", cut |-> FALSE, ret |-> list_oids_exists(stored, oids)]
    ELSE AfterEstimate(stored, oids, fs, EstimateOids(listing, fs, oids), Range(listing))

NoExist == [how |-> "not called"]

InitExist ==
    /\ InitIdle
    /\ \E stored \in StoredSets, oids \in QuerySets, fs \in FsTraits :
         calc = [fn |-> "input", stored |-> stored, oids |-> oids, fs |-> fs, res |-> NoExist]

\* odb.oids_exist(oids) on the remote
DoOidsExist ==
    /\ calc.fn = "input"
    /\ \E listing \in SeqsOf(_list_oids(calc.stored, {ZeroPrefix(calc.fs)})) :
         calc' = [calc EXCEPT !.fn = "oids_exist",
                              !.res = ObjectDB_oids_exist(calc.stored, calc.oids, calc.fs, listing)]
    /\ UNCHANGED odbVars

NextExist == DoOidsExist

SpecExist == InitExist /\ [][NextExist]_vars

ExistStrategies ==
    calc.fn = "oids_exist" =>
        /\ calc.res.how \in {"exists", "estimate_exists", "list_all", "traverse"}
        /\ calc.res.cut => calc.res.how = "estimate_exists"

\* ------------------------------------------------------- State (hashes)
\* the paths whose hashes the state database caches, and the hash a caller
\* saves for each
StatePaths == {"p1", "p2"}
StateHash(path) == [name |-> "md5", value |-> IF path = "p1" THEN h1 ELSE h2]

\* fs.info(path) of a file: inode, mtime, size and mode; Gone for no file
Gone == [ino |-> 0, mtime |-> 0, size |-> 0, mode |-> 0]
BaseInfo == [ino |-> 1, mtime |-> 1, size |-> 1, mode |-> 1]
StateInfos ==
    {BaseInfo, [BaseInfo EXCEPT !.ino = 2], [BaseInfo EXCEPT !.mtime = 2],
     [BaseInfo EXCEPT !.size = 2], [BaseInfo EXCEPT !.mode = 2]}

\* python None as the info argument
NoInfo == [ino |-> 0 - 1, mtime |-> 0, size |-> 0, mode |-> 0]

\* rows of the hashes table: none, text that is not JSON, or the JSON text
\* of an entry
NoRow == [kind |-> "none", entry |-> <<>>]
GarbageRow == [kind |-> "garbage", entry |-> <<>>]
HASH_VERSION == 1

\* python None as the version of an entry written without one
NoVersion == HASH_VERSION - 1

\* faulty variant of _checksum, for sensitivity runs: the mtime is left out of the token
_checksum_no_mtime(info) == <<info.ino, 0, info.size>>

\* _checksum(info): the token of inode, mtime and size
_checksum(info) == <<info.ino, info.mtime, info.size>>

\* HashInfo.to_dict
HashInfo_to_dict(hi) == IF ~Truthy(hi) THEN EmptyDict ELSE hi.name :> hi.value

\* json_dumps of the entry built by save and save_many
StateEntry(hi, info) ==
    [kind |-> "json",
     entry |-> [version |-> HASH_VERSION, checksum |-> _checksum(info),
                size |-> info.size, hash_info |-> HashInfo_to_dict(hi)]]

\* info or fs.info(path)
InfoOr(given, file) == IF given # NoInfo THEN given ELSE file

\* State.save(path, fs, hash_info, info): the hashes table afterwards;
\* fs.info raises for a missing file
State_save(hashes, files, local, path, hi, given) ==
    IF ~local THEN [exc |-> "none", hashes |-> hashes]
    ELSE IF InfoOr(given, files[path]) = Gone THEN [exc |-> "FileNotFoundError", hashes |-> hashes]
    ELSE [exc |-> "none",
          hashes |-> [hashes EXCEPT ![path] = StateEntry(hi, InfoOr(given, files[path]))]]

\* State.save_many(items, fs): items of missing files are skipped
RECURSIVE State_save_many(_, _, _, _)
State_save_many(hashes, files, local, items) ==
    IF ~local \/ items = <<>> THEN hashes
    ELSE State_save_many(
            IF InfoOr(Head(items).info, files[Head(items).path]) = Gone THEN hashes
            ELSE [hashes EXCEPT ![Head(items).path] =
                    StateEntry(Head(items).hi, InfoOr(Head(items).info, files[Head(items).path]))],
            files, local, Tail(items))

Miss(path) == [path |-> path, meta |-> NoMeta, hi |-> NoHash]

\* State._get lines 232-243 on the parsed entry
EntryHit(path, entry, info) ==
    IF entry.checksum # _checksum(info) THEN Miss(path)
    ELSE IF entry.version # NoVersion /\ entry.version > HASH_VERSION THEN Miss(path)
    ELSE [path |-> path, meta |-> [size |-> info.size, md5 |-> <<>>],
          hi |-> IF entry.version = NoVersion /\ HashInfoFromDict(entry.hash_info).name = "md5"
                 THEN [HashInfoFromDict(entry.hash_info) EXCEPT !.name = "md5-dos2unix"]
                 ELSE HashInfoFromDict(entry.hash_info)]

\* State._get(path, raw, info): json_loads raises ValueError on other text
State__get(path, raw, info) ==
    IF raw.kind # "json" THEN Miss(path) ELSE EntryHit(path, raw.entry, info)

\* State.get(path, fs, info)
State_get(hashes, files, local, path, given) ==
    IF ~local THEN Miss(path)
    ELSE IF hashes[path].kind = "none" THEN Miss(path)
    ELSE IF InfoOr(given, files[path]) = Gone THEN Miss(path)
    ELSE State__get(path, hashes[path], InfoOr(given, files[path]))

\* State.get_many(items, fs, infos): one result per item, in order
State_get_many(hashes, files, local, items, infos) ==
    [i \in 1..Len(items) |-> State_get(hashes, files, local, items[i], infos[items[i]])]

NoInfos == [p \in StatePaths |-> NoInfo]
PathLists == {<<"p1">>, <<"p1", "p2">>, <<"p2", "p1">>}

InitState ==
    /\ InitIdle
    /\ calc = [fn |-> "init", files |-> [p \in StatePaths |-> BaseInfo],
               hashes |-> [p \in StatePaths |-> NoRow], res |-> <<>>, exc |-> "none"]

\* state.save(path, fs, hash_info, info) as hash_file calls it, with the
\* info of the file or none
DoStateSave ==
    \E path \in StatePaths, local \in BOOLEAN : \E given \in {NoInfo, calc.files[path]} :
        /\ given # Gone
        /\ calc' = [calc EXCEPT !.fn = "save", !.res = <<>>,
                                !.exc = State_save(calc.hashes, calc.files, local, path, StateHash(path), given).exc,
                                !.hashes = State_save(calc.hashes, calc.files, local, path, StateHash(path), given).hashes]
        /\ UNCHANGED odbVars

\* state.save_many(items, fs) as _get_hashes calls it
DoStateSaveMany ==
    \E items \in PathLists, local, withinfo \in BOOLEAN :
        /\ calc' = [calc EXCEPT !.fn = "save_many", !.res = <<>>, !.exc = "none",
                                !.hashes = State_save_many(calc.hashes, calc.files, local,
                                    [i \in 1..Len(items) |->
                                        [path |-> items[i], hi |-> StateHash(items[i]),
                                         info |-> IF withinfo /\ calc.files[items[i]] # Gone
                                                  THEN calc.files[items[i]] ELSE NoInfo]])]
        /\ UNCHANGED odbVars

\* the file at a path is written, touched, replaced, chmod-ed or removed
FileChange ==
    \E path \in StatePaths, new \in StateInfos \cup {Gone} :
        /\ new # calc.files[path]
        /\ calc' = [calc EXCEPT !.fn = "file", !.res = <<>>, !.exc = "none", !.files[path] = new]
        /\ UNCHANGED odbVars

\* the stored text of a row is damaged, or was written by another version
\* of the program (a later HASH_VERSION, or none)
RowChange ==
    \E path \in StatePaths, how \in {"garbage", "legacy", "later"} :
        /\ calc.hashes[path].kind = "json"
        /\ calc.hashes[path].entry.version = HASH_VERSION
        /\ calc' = [calc EXCEPT !.fn = "row", !.res = <<>>, !.exc = "none",
                                !.hashes[path] = IF how = "garbage" THEN GarbageRow
                                                 ELSE IF how = "legacy" THEN [@ EXCEPT !.entry.version = NoVersion]
                                                 ELSE [@ EXCEPT !.entry.version = HASH_VERSION + 1]]
        /\ UNCHANGED odbVars

\* state.get(path, fs, info), with the info of the file or none
DoStateGet ==
    \E path \in StatePaths, local \in BOOLEAN : \E given \in {NoInfo, calc.files[path]} :
        /\ given # Gone
        /\ calc' = [calc EXCEPT !.fn = IF local THEN "get" ELSE "get_other", !.exc = "none",
                                !.res = <<State_get(calc.hashes, calc.files, local, path, given)>>]
        /\ UNCHANGED odbVars

\* state.get_many(items, fs, infos), with the infos of the files or none
DoStateGetMany ==
    \E items \in PathLists, local, withinfo \in BOOLEAN :
        /\ calc' = [calc EXCEPT !.fn = IF local THEN "get" ELSE "get_other", !.exc = "none",
                                !.res = State_get_many(calc.hashes, calc.files, local, items,
                                    [p \in StatePaths |->
                                        IF withinfo /\ calc.files[p] # Gone THEN calc.files[p] ELSE NoInfo])]
        /\ UNCHANGED odbVars

NextState ==
    \/ DoStateSave
    \/ DoStateSaveMany
    \/ FileChange
    \/ RowChange
    \/ DoStateGet
    \/ DoStateGetMany

SpecState == InitState /\ [][NextState]_vars

\* the row of a path holds an entry recorded for the fingerprint the file
\* has now
Fingerprint(info) == <<info.ino, info.mtime, info.size>>
FreshRow(path) ==
    /\ calc.files[path] # Gone
    /\ calc.hashes[path].kind = "json"
    /\ calc.hashes[path].entry.checksum = Fingerprint(calc.files[path])

\* C31: get and get_many return a hash for a path only when the fingerprint
\* (inode, mtime, size) of the file equals the one recorded with the hash,
\* and then the recorded hash; with another fingerprint, a row that does not
\* parse or no file they return a miss
C31_HitOnlyWhenFresh ==
    calc.fn \in {"get", "get_other"} =>
        \A i \in 1..Len(calc.res) :
            /\ calc.res[i].hi # NoHash =>
                  /\ FreshRow(calc.res[i].path)
                  /\ calc.res[i].hi.value = StateHash(calc.res[i].path).value
            /\ ~FreshRow(calc.res[i].path) => calc.res[i] = Miss(calc.res[i].path)

\* get_many answers p2 with the hash saved for it and misses p1, whose file
\* was touched after its hash was saved
C31_Witness ==
    /\ calc.fn = "get"
    /\ Len(calc.res) = 2
    /\ calc.res[1] = Miss("p1")
    /\ calc.hashes["p1"].kind = "json" /\ calc.files["p1"] = [BaseInfo EXCEPT !.mtime = 2]
    /\ calc.hashes["p1"].entry.checksum = Fingerprint(BaseInfo)
    /\ calc.res[2].path = "p2" /\ calc.res[2].hi = StateHash("p2")

\* ------------------------------------------------ hashing in read chunks
MaxStreamLen == 4  \* longest byte stream hashed in chunks

\* istextfile.DEFAULT_CHUNK_SIZE, the least chunk size read accepts and the
\* length of the block given to istextblock (scaled to the streams here)
DEFAULT_CHUNK_SIZE == 2
ChunkSizes == {DEFAULT_CHUNK_SIZE, DEFAULT_CHUNK_SIZE + 1}
StreamStrings == {<<>>} \cup Strings(Bytes, MaxStreamLen)

\* chunk[:n]
Prefix(data, n) == SubSeq(data, 1, IF Len(data) < n THEN Len(data) ELSE n)

\* Dos2UnixHashStreamFile.read: the bytes given to hasher.update for a chunk
Dos2UnixChunk(chunk) ==
    IF chunk # <<>> /\ istextblock(Prefix(chunk, DEFAULT_CHUNK_SIZE)) THEN dos2unix(chunk) ELSE chunk

\* HashStreamFile.read / Dos2UnixHashStreamFile.read by name
HashedOfChunk(chunk, name) == IF name = "md5-dos2unix" THEN Dos2UnixChunk(chunk) ELSE chunk

\* fobj_md5(fobj, chunk_size, name): all bytes given to the hasher while
\* the stream is read in chunks of chunk_size
RECURSIVE HashedBytes(_, _, _)
HashedBytes(data, chunk_size, name) ==
    IF data = <<>> THEN <<>>
    ELSE HashedOfChunk(Prefix(data, chunk_size), name)
         \o HashedBytes(SubSeq(data, Len(Prefix(data, chunk_size)) + 1, Len(data)), chunk_size, name)

\* fobj_md5 on a stream read in chunks: stream.hash_value
fobj_md5_chunks(data, chunk_size, name) == hexdigest(HashedBytes(data, chunk_size, name))

InitStream ==
    /\ InitIdle
    /\ \E name \in HashNames, b \in StreamStrings, n \in ChunkSizes :
         calc = [fn |-> "input", name |-> name, b |-> b, chunk_size |-> n, oid |-> <<>>]

\* fobj_md5(fobj, chunk_size, name) on a stream holding the bytes
DoFobjMd5 ==
    /\ calc.fn = "input"
    /\ calc' = [calc EXCEPT !.fn = "fobj_md5",
                            !.oid = fobj_md5_chunks(calc.b, calc.chunk_size, calc.name)]
    /\ UNCHANGED odbVars

NextStream == DoFobjMd5

SpecStream == InitStream /\ [][NextStream]_vars

\* C32: the md5-dos2unix hash of a text stream is the md5 of the stream with
\* every CR LF replaced by LF, wherever the stream is split into chunks
C32_Dos2UnixAnySplit ==
    (calc.fn = "fobj_md5" /\ calc.name = "md5-dos2unix" /\ istextblock(calc.b)) =>
        calc.oid = hexdigest(dos2unix(calc.b))

\* the same for streams in which no chunk ends with the CR of a CR LF pair
SplitsPair(data, chunk_size) ==
    \E k \in 1..Len(data) : k % chunk_size = 0 /\ k < Len(data) /\ data[k] = CR /\ data[k + 1] = LF
Dos2UnixUnsplitPairs ==
    (calc.fn = "fobj_md5" /\ calc.name = "md5-dos2unix" /\ istextblock(calc.b)
        /\ ~SplitsPair(calc.b, calc.chunk_size)) =>
        calc.oid = hexdigest(dos2unix(calc.b))

\* ------------------------------------- ThreadPoolExecutor.imap_unordered
WorkerCounts == {1, 2}   \* max_workers of the executor
MaxItems == 11     \* longest iterable mapped

\* items are numbered in input order; an item is "new" until submitted,
\* then "queued", "running" and "done"; "batch" while in the done set that
\* the generator is yielding, "yielded" afterwards
ItemsIn(c, states) == {i \in 1..c.k : c.st[i] \in states}

\* faulty variant of Islice, for sensitivity runs: the iterator is made anew for every task set
Islice_restart(c, n) == {i \in 1..c.k : i <= n}

\* islice(it, n) on the shared iterator: the next n items, or those left
Islice(c, n) == {i \in 1..c.k : c.nxt <= i /\ i < c.nxt + n}

\* create_taskset(n): submit fn for the next n items
create_taskset(c, n) ==
    [c EXCEPT !.st = [i \in 1..c.k |-> IF i \in Islice(c, n) THEN "queued" ELSE c.st[i]],
              !.submitted = [i \in 1..c.k |-> IF i \in Islice(c, n) THEN c.submitted[i] + 1 ELSE c.submitted[i]],
              !.nxt = IF c.nxt + n > c.k + 1 THEN c.k + 1 ELSE c.nxt + n]

NoMap == [fn |-> "imap", pc |-> "start", n |-> 1, k |-> 0, nxt |-> 1, st |-> <<>>,
          submitted |-> <<>>, calls |-> <<>>, yields |-> <<>>, started |-> <<>>, ndone |-> 0]

InitMap ==
    /\ InitIdle
    /\ \E n \in WorkerCounts, k \in {0, 3, MaxItems} :
         calc = [NoMap EXCEPT !.n = n, !.k = k, !.st = [i \in 1..k |-> "new"],
                              !.submitted = [i \in 1..k |-> 0],
                              !.calls = [i \in 1..k |-> 0], !.yields = [i \in 1..k |-> 0]]

\* imap_unordered lines 26-30, max_workers == 1: the next item is mapped in
\* the calling thread and its result yielded
SeqCall ==
    /\ calc.pc = "start" /\ calc.n = 1
    /\ calc.nxt <= calc.k
    /\ calc' = [calc EXCEPT !.st[calc.nxt] = "yielded", !.calls[calc.nxt] = @ + 1,
                            !.yields[calc.nxt] = @ + 1, !.started = Append(@, calc.nxt),
                            !.nxt = @ + 1]
    /\ UNCHANGED odbVars

\* the iterable is exhausted: the generator returns
SeqReturn ==
    /\ calc.pc = "start" /\ calc.n = 1
    /\ calc.nxt > calc.k
    /\ calc' = [calc EXCEPT !.pc = "end"]
    /\ UNCHANGED odbVars

\* line 35: tasks = create_taskset(self._max_workers * 5)
FirstTasks ==
    /\ calc.pc = "start" /\ calc.n > 1
    /\ calc' = [create_taskset(calc, calc.n * 5) EXCEPT !.pc = "wait"]
    /\ UNCHANGED odbVars

\* a worker thread of the pool takes the oldest queued task and calls fn;
\* the pool has at most max_workers threads
WorkerStart ==
    /\ ItemsIn(calc, {"queued"}) # {}
    /\ Cardinality(ItemsIn(calc, {"running"})) < calc.n
    /\ \E i \in ItemsIn(calc, {"queued"}) :
         /\ \A j \in ItemsIn(calc, {"queued"}) : i <= j
         /\ calc' = [calc EXCEPT !.st[i] = "running", !.calls[i] = @ + 1,
                                 !.started = Append(@, i)]
    /\ UNCHANGED odbVars

\* fn returns in a worker thread: the future is finished
WorkerDone ==
    /\ \E i \in ItemsIn(calc, {"running"}) : calc' = [calc EXCEPT !.st[i] = "done"]
    /\ UNCHANGED odbVars

\* lines 36-37: futures.wait(tasks, FIRST_COMPLETED) returns the finished
\* tasks; the loop ends when no task is left
WaitReturns ==
    /\ calc.pc = "wait"
    /\ IF ItemsIn(calc, {"queued", "running", "done"}) = {}
       THEN calc' = [calc EXCEPT !.pc = "end"]
       ELSE /\ ItemsIn(calc, {"done"}) # {}
            /\ calc' = [calc EXCEPT !.pc = "yield",
                                    !.ndone = Cardinality(ItemsIn(calc, {"done"})),
                                    !.st = [i \in 1..calc.k |-> IF calc.st[i] = "done" THEN "batch" ELSE calc.st[i]]]
    /\ UNCHANGED odbVars

\* lines 38-39: the result of one finished task is yielded
YieldOne ==
    /\ calc.pc = "yield"
    /\ \E i \in ItemsIn(calc, {"batch"}) :
         calc' = [calc EXCEPT !.st[i] = "yielded", !.yields[i] = @ + 1]
    /\ UNCHANGED odbVars

\* line 40: tasks.update(create_taskset(len(done)))
Refill ==
    /\ calc.pc = "yield"
    /\ ItemsIn(calc, {"batch"}) = {}
    /\ calc' = [create_taskset(calc, calc.ndone) EXCEPT !.pc = "wait"]
    /\ UNCHANGED odbVars

NextMap ==
    \/ SeqCall
    \/ SeqReturn
    \/ FirstTasks
    \/ WorkerStart
    \/ WorkerDone
    \/ WaitReturns
    \/ YieldOne
    \/ Refill

SpecMap == InitMap /\ [][NextMap]_vars

\* C34: fn is called at most once per item and every result is yielded at
\* most once; at no time are more than 5 * N submitted tasks unfinished or
\* more than N calls running; with N = 1 the calls are made in input order;
\* when the generator has returned, every item was called and yielded once,
\* and until then a step of the generator or of a worker is possible
C34_OncePerItemBounded ==
    calc.fn = "imap" =>
        /\ \A i \in 1..calc.k : calc.calls[i] <= 1 /\ calc.yields[i] <= calc.calls[i] /\ calc.submitted[i] <= 1
        /\ Cardinality(ItemsIn(calc, {"queued", "running"})) <= 5 * calc.n
        /\ Cardinality(ItemsIn(calc, {"running"})) <= calc.n
        /\ calc.n = 1 => /\ calc.started = [i \in 1..Len(calc.started) |-> i]
                         /\ \A i \in 1..calc.k : calc.calls[i] = calc.yields[i]
        /\ calc.pc = "end" => \A i \in 1..calc.k : calc.calls[i] = 1 /\ calc.yields[i] = 1
        /\ calc.pc # "end" => ENABLED NextMap

\* with two workers the generator has returned after mapping more items than
\* the first task set holds, every result yielded once
C34_Witness ==
    /\ calc.fn = "imap" /\ calc.pc = "end"
    /\ calc.n = 2 /\ calc.k = MaxItems /\ calc.k > 5 * calc.n
    /\ \A i \in 1..calc.k : calc.yields[i] = 1

\* --------------------------------------------------- fs.utils.exists
\* the paths asked for, as (directory, name); the files that exist
QueryPaths == {<<"a", "x">>, <<"a", "y">>, <<"b", "z">>}
QueryInputs == {QueryPaths, {<<"a", "x">>, <<"b", "z">>}, {<<"a", "x">>}}

\* fs.parent(path)
ParentOf(path) == path[1]

\* fs.ls(parent): the files of the directory
Ls(files, parent) == {f \in files : ParentOf(f) = parent}

\* the batches _exist_query can pop: up to batch_size paths, in any order
Batches_of(paths, batch_size) ==
    UNION {SeqsOf(b) : b \in {c \in SUBSET paths :
              Cardinality(c) = IF Cardinality(paths) < batch_size THEN Cardinality(paths) ELSE batch_size}}

NoQuery == [fn |-> "exists", input |-> {}, files |-> {}, batch_size |-> 1, paths |-> {},
            results |-> {}, main |-> "start", ret |-> {},
            epc |-> "idle", batch |-> <<>>, ei |-> 1,
            lpc |-> "idle", parents |-> {}, cur |-> "", found |-> {}]

InitQuery ==
    /\ InitIdle
    /\ \E input \in QueryInputs, files \in SUBSET QueryPaths, batch_size \in {1, 2} :
         calc = [NoQuery EXCEPT !.input = input, !.files = files, !.batch_size = batch_size]

\* exists lines 217-223: one path is asked in the calling thread
ExistsOne ==
    /\ calc.main = "start" /\ Cardinality(calc.input) = 1
    /\ calc' = [calc EXCEPT !.main = "returned",
                            !.results = {<<p, p \in calc.files>> : p \in calc.input},
                            !.ret = calc.input]
    /\ UNCHANGED odbVars

\* exists lines 225-251: both queries are submitted to the two workers
ExistsSubmit ==
    /\ calc.main = "start" /\ Cardinality(calc.input) > 1
    /\ calc' = [calc EXCEPT !.main = "wait", !.paths = calc.input, !.epc = "take", !.lpc = "parents"]
    /\ UNCHANGED odbVars

\* exists lines 252-259: futures.wait returns once one of the two queries
\* has ended, and the results dict is returned as it is then
ExistsReturn ==
    /\ calc.main = "wait"
    /\ calc.epc = "done" \/ calc.lpc = "done"
    /\ calc' = [calc EXCEPT !.main = "returned", !.ret = {r[1] : r \in calc.results}]
    /\ UNCHANGED odbVars

\* results[path] = result unless the path has a result
Record(results, path, result) ==
    IF \E r \in results : r[1] = path THEN results ELSE results \cup {<<path, result>>}

\* _exist_query lines 272-276, under paths_lock: return on an empty set,
\* else pop a batch
ExistTake ==
    /\ calc.epc = "take"
    /\ IF calc.paths = {}
       THEN calc' = [calc EXCEPT !.epc = "done"]
       ELSE \E b \in Batches_of(calc.paths, calc.batch_size) :
              calc' = [calc EXCEPT !.epc = "record", !.batch = b, !.ei = 1,
                                   !.paths = @ \ Range(b)]
    /\ UNCHANGED odbVars

\* _exist_query lines 277-282, under results_lock: the next result of
\* fs.exists(batch) is recorded
ExistRecord ==
    /\ calc.epc = "record"
    /\ IF calc.ei > Len(calc.batch)
       THEN calc' = [calc EXCEPT !.epc = "take"]
       ELSE calc' = [calc EXCEPT !.ei = @ + 1,
                                 !.results = Record(@, calc.batch[calc.ei], calc.batch[calc.ei] \in calc.files)]
    /\ UNCHANGED odbVars

\* _list_query lines 293-294, under paths_lock
ListParents ==
    /\ calc.lpc = "parents"
    /\ calc' = [calc EXCEPT !.lpc = "check", !.parents = {ParentOf(p) : p \in calc.paths}]
    /\ UNCHANGED odbVars

\* _list_query lines 295-298: the next parent, unless no path is left
ListCheck ==
    /\ calc.lpc = "check"
    /\ IF calc.parents = {} THEN calc' = [calc EXCEPT !.lpc = "rest"]
       ELSE IF calc.paths = {} THEN calc' = [calc EXCEPT !.lpc = "done"]
       ELSE \E parent \in calc.parents :
              calc' = [calc EXCEPT !.lpc = "ls", !.cur = parent, !.parents = @ \ {parent}]
    /\ UNCHANGED odbVars

\* _list_query lines 302-308: fs.ls(parent), which raises for a directory
\* that does not exist, and under paths_lock the removal of the listed paths
ListRemove ==
    /\ calc.lpc = "ls"
    /\ IF Ls(calc.files, calc.cur) = {}
       THEN \/ calc' = [calc EXCEPT !.lpc = "done"]
            \/ calc' = [calc EXCEPT !.lpc = "record", !.found = {}]
       ELSE calc' = [calc EXCEPT !.lpc = "record",
                                 !.found = Ls(calc.files, calc.cur) \cap calc.paths,
                                 !.paths = @ \ Ls(calc.files, calc.cur)]
    /\ UNCHANGED odbVars

\* _list_query lines 309-313, under results_lock
ListRecord ==
    /\ calc.lpc = "record"
    /\ calc' = [calc EXCEPT !.lpc = "check",
                            !.results = @ \cup {<<p, TRUE>> : p \in {f \in calc.found : \A r \in calc.results : r[1] # f}}]
    /\ UNCHANGED odbVars

\* _list_query lines 314-319, under both locks: the paths left do not exist
ListRest ==
    /\ calc.lpc = "rest"
    /\ calc' = [calc EXCEPT !.lpc = "done", !.paths = {},
                            !.results = @ \cup {<<p, FALSE>> : p \in {f \in calc.paths : \A r \in calc.results : r[1] # f}}]
    /\ UNCHANGED odbVars

NextQuery ==
    \/ ExistsOne
    \/ ExistsSubmit
    \/ ExistsReturn
    \/ ExistTake
    \/ ExistRecord
    \/ ListParents
    \/ ListCheck
    \/ ListRemove
    \/ ListRecord
    \/ ListRest

SpecQuery == InitQuery /\ [][NextQuery]_vars

\* C33: when exists returns, the dict holds an entry for every path asked
\* for: no path taken out of the shared set is still without a result
C33_EveryPathAnswered ==
    (calc.fn = "exists" /\ calc.main = "returned") => calc.ret = calc.input

\* every result recorded is the truth about the path, one result per path
RecordedResultsRight ==
    calc.fn = "exists" =>
        \A r \in calc.results : r[1] \in calc.input /\ r[2] = (r[1] \in calc.files)

TypeOK ==
    /\ pc \in {"idle", "dirs", "add"}
    /\ ops \in 0..MaxOps
    /\ \A o \in Oids : store[o] = Absent \/ store[o].content \in Contents
====
